---- MODULE Spec2Model ----
(***************************************************************************)
(* Agent orchestration of stockpulse-ai: the agent registry, the dispatch  *)
(* chain (OpenClaw gateway, then the agent's own run), the agent_runs      *)
(* table and the three callers that run agents: the synchronous run-now    *)
(* route, the asynchronous run-now route with its worker thread, and the   *)
(* scheduled jobs calling AgentRegistry.run_agent.                         *)
(***************************************************************************)
EXTENDS Integers, Sequences, FiniteSets, TLC

VARIABLES
    ROUTE_VARIANT,        \* the side of api/agents.py's conflict that is built
    OPENCLAW_ENABLED,     \* Config.OPENCLAW_ENABLED
    WEBSOCKET_AVAILABLE,  \* openclaw_engine.WEBSOCKET_AVAILABLE
    agents,               \* AgentRegistry._agents: name -> BaseAgent state
    agent_runs,           \* the agent_runs table, row id = position
    calls,                \* the invocations made so far, one record each
    threads,              \* the threads inside BaseAgent.run, line by line
    reads,                \* the calls of get_status_dict, line by line
    mh,                   \* a call of is_market_hours: arguments and answer
    cs,                   \* a call of get_cost_summary: arguments and answer
    scheduler_manager,    \* scheduler.scheduler_manager
    never_paused,         \* the manager had no job been paused (history)
    clock,                \* the time, in seconds
    last_call,            \* the last call on the manager and its answer
    _registry,            \* agents._registry: the published AgentRegistry
    _registry_lock,       \* agents._registry_lock: the thread holding it
    heap,                 \* the AgentRegistry objects built so far
    callers,              \* the threads in get_registry, register, list_agents
    bridge,               \* an OpenClawBridge polled against the clock
    poll,                 \* its poll_result call under way or last finished
    firing                \* one firing of a job gated by market hours

\* The state the line-by-line model of BaseAgent.run adds.
run_vars == <<threads, reads>>

\* The state no invocation of the orchestration model writes.
sched_vars == <<scheduler_manager, never_paused, clock, last_call>>

registry_vars == <<_registry, _registry_lock, heap, callers>>

bridge_vars == <<bridge, poll>>

outside == <<run_vars, mh, cs, sched_vars, registry_vars, bridge_vars,
             firing>>

vars == <<ROUTE_VARIANT, OPENCLAW_ENABLED, WEBSOCKET_AVAILABLE, agents,
          agent_runs, calls, outside>>

(***************************************************************************)
(* Bounds                                                                  *)
(***************************************************************************)
MaxCalls == 2
MaxMsgs == 2

(***************************************************************************)
(* Names                                                                   *)
(***************************************************************************)
\* api/agents.py holds both sides of an unresolved merge: the side marked
\* HEAD runs the agent inside the request, the side marked 7d1eb49 in a
\* worker thread.  A build has one of them.
RouteVariants == {"HEAD", "7d1eb49"}

Registered == {"scanner", "regime"}
UnknownNames == {"ghost"}
\* Two of the entries of AGENT_ID_MAP: a legacy stub id and a pass-through.
AGENT_ID_MAP == [n \in {"news_scanner", "regime"} |->
                    IF n = "news_scanner" THEN "scanner" ELSE n]
RouteNames == DOMAIN AGENT_ID_MAP \cup UnknownNames
RegistryNames == Registered \cup UnknownNames

None == [isNone |-> TRUE]

AgentStatus == {"idle", "running", "success", "error"}

AgentResult(agent_name, framework, status, error) ==
    [agent_name |-> agent_name, framework |-> framework,
     status |-> status, error |-> error]

NoError == "None"
AttributeErrorMsg == "'NoneType' object has no attribute 'started_at'"
ExcMsgs == {"boom"}

(***************************************************************************)
(* Each specification below moves one part of the state; the parts it      *)
(* leaves alone keep these values.                                         *)
(***************************************************************************)
OrchIdle ==
    /\ ROUTE_VARIANT = "7d1eb49"
    /\ OPENCLAW_ENABLED = FALSE
    /\ WEBSOCKET_AVAILABLE = FALSE
    /\ agent_runs = <<>>
    /\ calls = <<>>

RunIdle ==
    /\ threads = <<>>
    /\ reads = <<>>

MarketIdle ==
    mh = [market |-> "US", utc_now |-> 0, micro |-> FALSE, dst |-> FALSE,
          ships_alias |-> TRUE, pc |-> "done", ret |-> FALSE]

CostIdle ==
    cs = [days |-> 30, db_ok |-> TRUE, pc |-> "done", ret |-> None]

RegistryIdle ==
    /\ _registry = 0
    /\ _registry_lock = 0
    /\ heap = <<>>
    /\ callers = <<>>

JobsIdle == firing = None

BridgeIdle ==
    /\ bridge = None
    /\ poll = None

SchedIdle ==
    /\ scheduler_manager = None
    /\ never_paused = None
    /\ clock = 0
    /\ last_call = None

(***************************************************************************)
(* What an agent's execute() can do: return a Result with status success   *)
(* or error, raise, or return no Result.                                   *)
(***************************************************************************)
ExecOutcomes ==
    {[kind |-> "result", status |-> "success", msg |-> NoError],
     [kind |-> "result", status |-> "error", msg |-> "exec_error"],
     [kind |-> "none", status |-> "None", msg |-> AttributeErrorMsg]}
    \cup {[kind |-> "raise", status |-> "None", msg |-> m] : m \in ExcMsgs}

BaseAgent_init(enabled) ==
    [enabled |-> enabled, status |-> "idle", last_result |-> None,
     run_count |-> 0]

\* BaseAgent.run up to the try: the status is set to RUNNING.
run_begin(agent) == [agent EXCEPT !.status = "running"]

\* run_end without the except clause: what execute raises leaves run.
run_end_no_catch(agent, name, o) ==
    IF o.kind = "result"
    THEN LET result == AgentResult(name, "native", o.status, o.msg)
         IN [agent |-> [agent EXCEPT
                           !.status = IF result.status = "success"
                                      THEN "success" ELSE "error",
                           !.last_result = result,
                           !.run_count = @ + 1],
             result |-> result, raised |-> FALSE]
    ELSE [agent |-> agent, result |-> None, raised |-> TRUE]

\* run_end building the error Result without the exception's message.
run_end_drops_message(agent, name, o) ==
    IF o.kind = "result"
    THEN LET result == AgentResult(name, "native", o.status, o.msg)
         IN [agent |-> [agent EXCEPT
                           !.status = IF result.status = "success"
                                      THEN "success" ELSE "error",
                           !.last_result = result,
                           !.run_count = @ + 1],
             result |-> result, raised |-> FALSE]
    ELSE LET result == AgentResult(name, "native", "error", "Agent failed")
         IN [agent |-> [agent EXCEPT !.status = "error",
                                     !.last_result = result],
             result |-> result, raised |-> FALSE]

\* BaseAgent.run from the call of execute to the return.  o is what execute
\* did.  The value is the agent afterwards, the Result returned and whether
\* an exception left run.
run_end(agent, name, o) ==
    IF o.kind = "result"
    THEN LET result == AgentResult(name, "native", o.status, o.msg)
         IN [agent |-> [agent EXCEPT
                           !.status = IF result.status = "success"
                                      THEN "success" ELSE "error",
                           !.last_result = result,
                           !.run_count = @ + 1],
             result |-> result, raised |-> FALSE]
    ELSE \* execute raised, or result.started_at = ... raised on None
         LET result == AgentResult(name, "native", "error", o.msg)
         IN [agent |-> [agent EXCEPT !.status = "error",
                                     !.last_result = result],
             result |-> result, raised |-> FALSE]

(***************************************************************************)
(* OpenClawBridge.  A bridge is a record; every method is an operator      *)
(* whose value is the bridge afterwards (b) and what the method returned   *)
(* (ret).  env is what the gateway and the transport do during the call.   *)
(* log is the list of calls made on the bridge and on its transport.       *)
(***************************************************************************)
OtherId == 0
NoTaskId == -1   \* send_task returning None

MsgSet ==
    {[k |-> "empty", id |-> OtherId, error |-> FALSE],
     [k |-> "recv_timeout", id |-> OtherId, error |-> FALSE],
     [k |-> "recv_exc", id |-> OtherId, error |-> FALSE]}
    \cup {[k |-> "message", id |-> i, error |-> e] :
            i \in {OtherId, 1}, e \in BOOLEAN}

RECURSIVE SeqsUpTo(_, _)
SeqsUpTo(S, n) ==
    IF n = 0 THEN {<<>>}
    ELSE LET shorter == SeqsUpTo(S, n - 1)
         IN shorter \cup {Append(q, x) : q \in shorter, x \in S}

\* The gateway behaviours that differ in what the bridge does: once a step
\* failed, the later fields are not read and keep one fixed value.
GatewayEnvs ==
    LET env(probe, conn, send, sett, msgs) ==
            [ping_ok |-> TRUE, probe_ok |-> probe, connect_ok |-> conn,
             send_ok |-> send, settimeout_ok |-> sett, msgs |-> msgs]
    IN {env(FALSE, FALSE, FALSE, FALSE, <<>>),
        env(TRUE, FALSE, FALSE, FALSE, <<>>),
        env(TRUE, TRUE, FALSE, FALSE, <<>>),
        env(TRUE, TRUE, TRUE, FALSE, <<>>)}
       \cup {env(TRUE, TRUE, TRUE, TRUE, m) : m \in SeqsUpTo(MsgSet, MaxMsgs)}

Log(b, e) == [b EXCEPT !.log = Append(@, e)]

OpenClawBridge_init ==
    [connected |-> FALSE, ws |-> FALSE, pending_tasks |-> {},
     log |-> <<"__init__">>]

connect(b, env) ==
    LET b0 == Log(b, "connect")
    IN IF ~WEBSOCKET_AVAILABLE THEN [b |-> b0, ret |-> FALSE]
       ELSE IF b0.connected /\ b0.ws THEN [b |-> b0, ret |-> TRUE]
       ELSE LET b1 == Log(b0, "create_connection")
            IN IF env.connect_ok
               THEN [b |-> [b1 EXCEPT !.connected = TRUE, !.ws = TRUE],
                     ret |-> TRUE]
               ELSE [b |-> [b1 EXCEPT !.connected = FALSE, !.ws = FALSE],
                     ret |-> FALSE]

is_available(b, env) ==
    LET b0 == Log(b, "is_available")
    IN IF ~WEBSOCKET_AVAILABLE THEN [b |-> b0, ret |-> FALSE]
       ELSE IF b0.connected /\ b0.ws /\ env.ping_ok
       THEN [b |-> Log(b0, "ping"), ret |-> TRUE]
       ELSE LET b1 == IF b0.connected /\ b0.ws
                      THEN [Log(b0, "ping") EXCEPT !.connected = FALSE,
                                                   !.ws = FALSE]
                      ELSE b0
            IN [b |-> Log(b1, "create_connection"), ret |-> env.probe_ok]

\* uuid.uuid4(): an id no pending task has.
NewTaskId(b) == Cardinality(b.pending_tasks) + 1

PendingAgent(b, task_id) ==
    IF \E t \in b.pending_tasks : t.task_id = task_id
    THEN (CHOOSE t \in b.pending_tasks : t.task_id = task_id).agent_name
    ELSE "unknown"

send_task(b, env, agent_name) ==
    LET c == IF ~b.connected THEN connect(Log(b, "send_task"), env)
             ELSE [b |-> Log(b, "send_task"), ret |-> TRUE]
    IN IF ~c.ret THEN [b |-> c.b, ret |-> NoTaskId]
       ELSE LET task_id == NewTaskId(c.b)
                b1 == Log(c.b, "send")
            IN IF env.send_ok
               THEN [b |-> [b1 EXCEPT !.pending_tasks = @ \cup
                               {[task_id |-> task_id,
                                 agent_name |-> agent_name]}],
                     ret |-> task_id]
               ELSE [b |-> [b1 EXCEPT !.connected = FALSE], ret |-> NoTaskId]

\* The receive loop of poll_result: msgs are the receive events that fit in
\* the timeout window, in order; when they are used up the time is over.
RECURSIVE poll_loop(_, _, _)
poll_loop(msgs, task_id, agent_name) ==
    IF msgs = <<>>
    THEN AgentResult(agent_name, "openclaw", "error",
                     "Timeout after 60.0s waiting for OpenClaw result")
    ELSE LET m == Head(msgs)
         IN IF m.k # "message" \/ m.id # task_id
            THEN poll_loop(Tail(msgs), task_id, agent_name)
            ELSE IF m.error
            THEN AgentResult(agent_name, "openclaw", "error", "server_error")
            ELSE AgentResult(agent_name, "openclaw", "success", NoError)

poll_result(b, env, task_id) ==
    LET b0 == Log(b, "poll_result")
        agent_name == PendingAgent(b0, task_id)
    IN IF ~b0.connected \/ ~b0.ws
       THEN [b |-> b0,
             ret |-> AgentResult(agent_name, "openclaw", "error",
                                 "Not connected to OpenClaw Gateway")]
       ELSE IF ~env.settimeout_ok
       THEN [b |-> b0,
             ret |-> AgentResult(agent_name, "openclaw", "error",
                                 "settimeout_error")]
       ELSE [b |-> b0, ret |-> poll_loop(env.msgs, task_id, agent_name)]

\* run_task handing send_task's None on instead of an error Result.
run_task_returns_none(b, env, agent_name) ==
    LET s == send_task(Log(b, "run_task"), env, agent_name)
    IN IF s.ret = NoTaskId
       THEN [b |-> s.b, ret |-> None]
       ELSE poll_result(s.b, env, s.ret)

run_task(b, env, agent_name) ==
    LET s == send_task(Log(b, "run_task"), env, agent_name)
    IN IF s.ret = NoTaskId
       THEN [b |-> s.b,
             ret |-> AgentResult(agent_name, "openclaw", "error",
                        "Failed to send task to OpenClaw (not connected or send failed)")]
       ELSE poll_result(s.b, env, s.ret)

(***************************************************************************)
(* The agent_runs table.  A row's id is its position (AUTOINCREMENT, no    *)
(* row is ever deleted).  inv and upd are history fields: the invocation   *)
(* whose INSERT created the row and the one whose UPDATE last wrote it.    *)
(***************************************************************************)
Row(agent_name, framework, status, error, inv) ==
    [agent_name |-> agent_name, framework |-> framework, status |-> status,
     error |-> error, inv |-> inv, upd |-> 0]

\* AgentRegistry._persist_result: one INSERT of the Result; a database
\* error is logged and swallowed.
_persist_result(rows, result, inv, db_ok) ==
    IF db_ok
    THEN Append(rows, Row(result.agent_name, result.framework,
                          result.status, result.error, inv))
    ELSE rows

\* _insert_running_row: the placeholder row and its rowid, or 0.
_insert_running_row(rows, agent_name, inv, db_ok) ==
    IF db_ok
    THEN [rows |-> Append(rows, Row(agent_name, "native", "running",
                                    NoError, inv)),
          run_id |-> Len(rows) + 1]
    ELSE [rows |-> rows, run_id |-> 0]

\* _update_run_row: UPDATE ... WHERE id = run_id; errors are swallowed.
_update_run_row(rows, run_id, result, inv, db_ok) ==
    IF db_ok /\ run_id \in DOMAIN rows
    THEN [rows EXCEPT ![run_id] =
             [@ EXCEPT !.framework = result.framework,
                       !.status = result.status,
                       !.error = result.error,
                       !.upd = inv]]
    ELSE rows

SetMax(S) == CHOOSE x \in S : \A y \in S : y <= x

\* _get_latest_run_id: SELECT MAX(id) WHERE agent_name = ?, or 0.
_get_latest_run_id(rows, agent_name, db_ok) ==
    LET ids == {r \in DOMAIN rows : rows[r].agent_name = agent_name}
    IN IF db_ok /\ ids # {} THEN SetMax(ids) ELSE 0

(***************************************************************************)
(* _dispatch, OpenClaw part: the value tells whether the function returned *)
(* there and with which Result, the bridge it built (None if it built      *)
(* none) and what is_available answered.                                   *)
(***************************************************************************)
\* dispatch_gateway without the test of Config.OPENCLAW_ENABLED.
dispatch_gateway_ignores_flag(env, agent_name) ==
    LET av == is_available(OpenClawBridge_init, env)
    IN IF av.ret
       THEN LET r == run_task(av.b, env, agent_name)
            IN [returned |-> TRUE, result |-> r.ret, bridge |-> r.b,
                available |-> TRUE]
       ELSE [returned |-> FALSE, result |-> None, bridge |-> av.b,
             available |-> FALSE]

dispatch_gateway(env, agent_name) ==
    IF ~OPENCLAW_ENABLED
    THEN [returned |-> FALSE, result |-> None, bridge |-> None,
          available |-> FALSE]
    ELSE LET av == is_available(OpenClawBridge_init, env)
         IN IF av.ret
            THEN LET r == run_task(av.b, env, agent_name)
                 IN [returned |-> TRUE, result |-> r.ret, bridge |-> r.b,
                     available |-> TRUE]
            ELSE [returned |-> FALSE, result |-> None, bridge |-> av.b,
                  available |-> FALSE]

\* _dispatch, last lines: the Result for an agent the registry lacks.
dispatch_not_found(agent_name) ==
    AgentResult(agent_name, "native", "error",
                "Agent not found in registry")

\* AgentRegistry.run_agent for a disabled agent.
disabled_result(name) ==
    AgentResult(name, "disabled", "error", "Agent is disabled")

(***************************************************************************)
(* Invocations.  kind: "head" is the synchronous run-now route, "async"    *)
(* the run-now route with a worker thread, "job" a scheduled job calling   *)
(* run_agent.  pc is the position of the invocation's thread.  The fields  *)
(* bridge, available, gw_result (what run_task returned) and exec (what    *)
(* execute did) record what the invocation went through.                   *)
(***************************************************************************)
NewCall(kind, name, real) ==
    [kind |-> kind, name |-> name, real |-> real, pc |-> "start",
     http |-> 0, run_id |-> 0, result |-> None,
     bridge |-> None, available |-> FALSE, gw_result |-> None,
     exec |-> None]

AfterDispatch(kind) == IF kind = "async" THEN "update" ELSE "persist"

\* _dispatch up to the return of the gateway's Result or to the first
\* statement of agent.run; c is the invocation, stored at position i.
DispatchStart(i, c, env) ==
    LET g == dispatch_gateway(env, c.real)
        c1 == [c EXCEPT !.bridge = g.bridge, !.available = g.available]
        put(rec) == IF i \in DOMAIN calls
                    THEN [calls EXCEPT ![i] = rec]
                    ELSE Append(calls, rec)
    IN IF g.returned
       THEN /\ calls' = put([c1 EXCEPT !.gw_result = g.result,
                                       !.result = g.result,
                                       !.pc = AfterDispatch(c.kind)])
            /\ UNCHANGED agents
       ELSE IF c.real \notin DOMAIN agents
       THEN /\ calls' = put([c1 EXCEPT !.result = dispatch_not_found(c.real),
                                       !.pc = AfterDispatch(c.kind)])
            /\ UNCHANGED agents
       ELSE /\ calls' = put([c1 EXCEPT !.pc = "executing"])
            /\ agents' = [agents EXCEPT ![c.real] = run_begin(@)]

config == <<ROUTE_VARIANT, OPENCLAW_ENABLED, WEBSOCKET_AVAILABLE>>

Reject(kind, name, real, code) ==
    /\ calls' = Append(calls, [NewCall(kind, name, real) EXCEPT
                                  !.pc = "done", !.http = code])
    /\ UNCHANGED <<agents, agent_runs, config, outside>>

\* trigger_agent_run, synchronous variant: name resolution, the checks and
\* _dispatch up to its first write of shared state.
TriggerHead(name, env) ==
    /\ ROUTE_VARIANT = "HEAD"
    /\ Len(calls) < MaxCalls
    /\ IF name \notin DOMAIN AGENT_ID_MAP
       THEN Reject("head", name, name, 404)
       ELSE LET real_name == AGENT_ID_MAP[name]
            IN IF real_name \notin DOMAIN agents
               THEN Reject("head", name, real_name, 404)
               ELSE IF ~agents[real_name].enabled
               THEN Reject("head", name, real_name, 400)
               ELSE /\ DispatchStart(Len(calls) + 1,
                                     NewCall("head", name, real_name), env)
                    /\ UNCHANGED <<agent_runs, config, outside>>

\* trigger_agent_run, asynchronous variant: the checks, the placeholder row
\* and the start of the worker thread; the response carries run_id.
TriggerAsync(name, db_ok) ==
    /\ ROUTE_VARIANT = "7d1eb49"
    /\ Len(calls) < MaxCalls
    /\ IF name \notin DOMAIN agents
       THEN Reject("async", name, name, 404)
       ELSE IF ~agents[name].enabled
       THEN Reject("async", name, name, 400)
       ELSE LET ins == _insert_running_row(agent_runs, name,
                                           Len(calls) + 1, db_ok)
            IN /\ agent_runs' = ins.rows
               /\ calls' = Append(calls,
                      [NewCall("async", name, name) EXCEPT
                          !.pc = "dispatch", !.http = 200,
                          !.run_id = ins.run_id])
               /\ UNCHANGED <<agents, config, outside>>

\* _execute_agent_async, first line: the worker thread calls _dispatch.
WorkerDispatch(i, env) ==
    /\ i \in DOMAIN calls
    /\ calls[i].pc = "dispatch"
    /\ DispatchStart(i, calls[i], env)
    /\ UNCHANGED <<agent_runs, config, outside>>

\* run_agent persisting an error Result for a name the registry lacks.
run_agent_not_found_persists(name) ==
    /\ calls' = Append(calls, [NewCall("job", name, name) EXCEPT
                                  !.pc = "done",
                                  !.result = dispatch_not_found(name)])
    /\ agent_runs' = _persist_result(agent_runs, dispatch_not_found(name),
                                     Len(calls) + 1, TRUE)
    /\ UNCHANGED agents

\* AgentRegistry.run_agent, agent not found: return None.
run_agent_not_found(name) ==
    /\ calls' = Append(calls, [NewCall("job", name, name) EXCEPT
                                  !.pc = "done", !.result = None])
    /\ UNCHANGED <<agents, agent_runs>>

\* AgentRegistry.run_agent, agent enabled: agent.run(inputs) up to its try.
run_agent_start(name) ==
    /\ calls' = Append(calls, [NewCall("job", name, name) EXCEPT
                                  !.pc = "executing"])
    /\ agents' = [agents EXCEPT ![name] = run_begin(@)]
    /\ UNCHANGED agent_runs

\* run_agent without the test of config.enabled.
run_agent_disabled_runs(name) == run_agent_start(name)

\* AgentRegistry.run_agent, agent disabled: the 'disabled' error Result.
run_agent_disabled(name) ==
    /\ calls' = Append(calls, [NewCall("job", name, name) EXCEPT
                                  !.pc = "done",
                                  !.result = disabled_result(name)])
    /\ UNCHANGED <<agents, agent_runs>>

\* AgentRegistry.run_agent, called by a scheduled job, up to the first
\* statement of agent.run.
RunAgent(name) ==
    /\ Len(calls) < MaxCalls
    /\ IF name \notin DOMAIN agents THEN run_agent_not_found(name)
       ELSE IF ~agents[name].enabled THEN run_agent_disabled(name)
       ELSE run_agent_start(name)
    /\ UNCHANGED <<config, outside>>

\* BaseAgent.run from execute() to its return, and the return of _dispatch
\* or the next line of run_agent.
Execute(i, o) ==
    /\ i \in DOMAIN calls
    /\ calls[i].pc = "executing"
    /\ LET r == run_end(agents[calls[i].real], calls[i].real, o)
       IN /\ agents' = [agents EXCEPT ![calls[i].real] = r.agent]
          /\ calls' = [calls EXCEPT ![i] =
                IF r.raised
                THEN [@ EXCEPT !.pc = "crashed", !.exec = o]
                ELSE [@ EXCEPT !.pc = AfterDispatch(calls[i].kind),
                               !.exec = o, !.result = r.result]]
    /\ UNCHANGED <<agent_runs, config, outside>>

\* registry._persist_result(result, params) in trigger_agent_run
\* (synchronous variant) and in run_agent.
Persist(i, db_ok) ==
    /\ i \in DOMAIN calls
    /\ calls[i].pc = "persist"
    /\ agent_runs' = _persist_result(agent_runs, calls[i].result, i, db_ok)
    /\ calls' = [calls EXCEPT ![i].pc =
                    IF calls[i].kind = "head" THEN "latest" ELSE "done"]
    /\ UNCHANGED <<agents, config, outside>>

\* run_id = _get_latest_run_id(real_name) and the response of the
\* synchronous variant.
Latest(i, db_ok) ==
    /\ i \in DOMAIN calls
    /\ calls[i].pc = "latest"
    /\ calls' = [calls EXCEPT ![i] =
          [@ EXCEPT !.pc = "done", !.http = 200,
                    !.run_id = _get_latest_run_id(agent_runs, calls[i].real,
                                                  db_ok)]]
    /\ UNCHANGED <<agents, agent_runs, config, outside>>

\* _execute_agent_async after _dispatch returned: if run_id: _update_run_row.
Update(i, db_ok) ==
    /\ i \in DOMAIN calls
    /\ calls[i].pc = "update"
    /\ agent_runs' = IF calls[i].run_id # 0
                     THEN _update_run_row(agent_runs, calls[i].run_id,
                                          calls[i].result, i, db_ok)
                     ELSE agent_runs
    /\ calls' = [calls EXCEPT ![i].pc = "done"]
    /\ UNCHANGED <<agents, config, outside>>

Init ==
    /\ ROUTE_VARIANT \in RouteVariants
    /\ OPENCLAW_ENABLED \in BOOLEAN
    /\ WEBSOCKET_AVAILABLE \in BOOLEAN
    /\ agents \in [Registered -> {BaseAgent_init(e) : e \in BOOLEAN}]
    /\ agent_runs = <<>>
    /\ calls = <<>>
    /\ RunIdle
    /\ MarketIdle
    /\ CostIdle
    /\ SchedIdle
    /\ RegistryIdle
    /\ BridgeIdle
    /\ JobsIdle

Next ==
    \/ \E name \in RouteNames, env \in GatewayEnvs : TriggerHead(name, env)
    \/ \E name \in RegistryNames, db_ok \in BOOLEAN : TriggerAsync(name, db_ok)
    \/ \E name \in RegistryNames : RunAgent(name)
    \/ \E i \in 1..MaxCalls, env \in GatewayEnvs : WorkerDispatch(i, env)
    \/ \E i \in 1..MaxCalls, o \in ExecOutcomes : Execute(i, o)
    \/ \E i \in 1..MaxCalls, db_ok \in BOOLEAN : Persist(i, db_ok)
    \/ \E i \in 1..MaxCalls, db_ok \in BOOLEAN : Latest(i, db_ok)
    \/ \E i \in 1..MaxCalls, db_ok \in BOOLEAN : Update(i, db_ok)

Spec == Init /\ [][Next]_vars

(***************************************************************************)
(* BaseAgent.run and BaseAgent.get_status_dict line by line.  The object   *)
(* has no lock: threads of the scheduler's pool and of the run-now route   *)
(* run the same agent at once, and the interpreter may switch threads      *)
(* between any two attribute writes.  A thread runs one agent once.        *)
(***************************************************************************)
MaxThreads == 2
MaxReads == 1

NewThread(name) ==
    [agent |-> name, pc |-> "execute", result |-> None, loaded |-> 0]

\* run, line 98: self._status = AgentStatus.RUNNING.  A read of the same
\* agent that is under way is no longer a read taken between runs.
RunBegin(name) ==
    /\ Len(threads) < MaxThreads
    /\ agents' = [agents EXCEPT ![name] = run_begin(@)]
    /\ threads' = Append(threads, NewThread(name))
    /\ reads' = [k \in DOMAIN reads |->
                    IF reads[k].agent = name /\ reads[k].pc # "done"
                    THEN [reads[k] EXCEPT !.quiet = FALSE]
                    ELSE reads[k]]

\* run, lines 103-106 or 111-122: execute returns or raises and the Result
\* is built; only the thread's own variables change.
RunExecute(t, o) ==
    /\ t \in DOMAIN threads
    /\ threads[t].pc = "execute"
    /\ LET r == run_end(agents[threads[t].agent], threads[t].agent, o)
       IN threads' = [threads EXCEPT ![t] =
             [@ EXCEPT !.result = r.result,
                       !.pc = IF o.kind = "result" THEN "l107" ELSE "l123"]]
    /\ UNCHANGED <<agents, reads>>

\* run, line 107 or line 123: the write of self._status.
RunSetStatus(t) ==
    /\ t \in DOMAIN threads
    /\ threads[t].pc \in {"l107", "l123"}
    /\ agents' = [agents EXCEPT ![threads[t].agent].status =
           IF threads[t].pc = "l123" THEN "error"
           ELSE IF threads[t].result.status = "success" THEN "success"
           ELSE "error"]
    /\ threads' = [threads EXCEPT ![t].pc =
                      IF @ = "l107" THEN "l108" ELSE "l124"]
    /\ UNCHANGED reads

\* run, line 108 or line 124: the write of self._last_result.
RunSetLastResult(t) ==
    /\ t \in DOMAIN threads
    /\ threads[t].pc \in {"l108", "l124"}
    /\ agents' = [agents EXCEPT ![threads[t].agent].last_result =
                     threads[t].result]
    /\ threads' = [threads EXCEPT ![t].pc =
                      IF @ = "l108" THEN "l109" ELSE "done"]
    /\ UNCHANGED reads

\* run, line 109, first half of self._run_count += 1: the load.
RunLoadCount(t) ==
    /\ t \in DOMAIN threads
    /\ threads[t].pc = "l109"
    /\ threads' = [threads EXCEPT ![t] =
          [@ EXCEPT !.loaded = agents[threads[t].agent].run_count,
                    !.pc = "l109_store"]]
    /\ UNCHANGED <<agents, reads>>

\* run, line 109, second half: the store, and the return of line 110.
RunStoreCount(t) ==
    /\ t \in DOMAIN threads
    /\ threads[t].pc = "l109_store"
    /\ agents' = [agents EXCEPT ![threads[t].agent].run_count =
                     threads[t].loaded + 1]
    /\ threads' = [threads EXCEPT ![t].pc = "done"]
    /\ UNCHANGED reads

\* A run of the agent is between its first and its last statement.
RunInProgress(name) ==
    \E t \in DOMAIN threads :
        threads[t].agent = name /\ threads[t].pc # "done"

\* get_status_dict, line 133: 'status': self._status.value.
ReadStatus(name) ==
    /\ Len(reads) < MaxReads
    /\ reads' = Append(reads,
          [agent |-> name, pc |-> "l135", status |-> agents[name].status,
           run_count |-> 0, last_run |-> None,
           quiet |-> ~RunInProgress(name)])
    /\ UNCHANGED <<agents, threads>>

\* get_status_dict, line 135: 'run_count': self._run_count.
ReadRunCount(k) ==
    /\ k \in DOMAIN reads
    /\ reads[k].pc = "l135"
    /\ reads' = [reads EXCEPT ![k] =
          [@ EXCEPT !.run_count = agents[reads[k].agent].run_count,
                    !.pc = "l136"]]
    /\ UNCHANGED <<agents, threads>>

\* get_status_dict, line 136: 'last_run': self._last_result.to_dict().
ReadLastRun(k) ==
    /\ k \in DOMAIN reads
    /\ reads[k].pc = "l136"
    /\ reads' = [reads EXCEPT ![k] =
          [@ EXCEPT !.last_run = agents[reads[k].agent].last_result,
                    !.pc = "done"]]
    /\ UNCHANGED <<agents, threads>>

not_run == <<ROUTE_VARIANT, OPENCLAW_ENABLED, WEBSOCKET_AVAILABLE,
             agent_runs, calls, mh, cs, sched_vars,
             registry_vars, bridge_vars, firing>>

RunInit ==
    /\ OrchIdle
    /\ agents = [n \in Registered |-> BaseAgent_init(TRUE)]
    /\ threads = <<>>
    /\ reads = <<>>
    /\ MarketIdle
    /\ CostIdle
    /\ SchedIdle
    /\ RegistryIdle
    /\ BridgeIdle
    /\ JobsIdle

RunNext ==
    \/ \E name \in Registered : RunBegin(name) /\ UNCHANGED not_run
    \/ \E t \in 1..MaxThreads, o \in ExecOutcomes :
          RunExecute(t, o) /\ UNCHANGED not_run
    \/ \E t \in 1..MaxThreads : RunSetStatus(t) /\ UNCHANGED not_run
    \/ \E t \in 1..MaxThreads : RunSetLastResult(t) /\ UNCHANGED not_run
    \/ \E t \in 1..MaxThreads : RunLoadCount(t) /\ UNCHANGED not_run
    \/ \E t \in 1..MaxThreads : RunStoreCount(t) /\ UNCHANGED not_run
    \/ \E name \in Registered : ReadStatus(name) /\ UNCHANGED not_run
    \/ \E k \in 1..MaxReads : ReadRunCount(k) /\ UNCHANGED not_run
    \/ \E k \in 1..MaxReads : ReadLastRun(k) /\ UNCHANGED not_run

SpecRun == RunInit /\ [][RunNext]_vars

(***************************************************************************)
(* SchedulerManager.is_market_hours.  An instant is a number of seconds    *)
(* since Monday 00:00:00 UTC of its week, with a flag for a non-zero       *)
(* microsecond part; dst tells whether daylight saving time is in force    *)
(* in New York at the instant.  Text is a sequence of characters.          *)
(***************************************************************************)
Day == 86400
Week == 604800

\* Config as the comments of is_market_hours give it; the zone names are
\* the ones _TZ_ALIASES is written for.
Config ==
    [MARKET_TIMEZONE |-> "US/Eastern",
     INDIA_MARKET_TIMEZONE |-> "Asia/Kolkata",
     US_MARKET_OPEN |-> <<"0", "9", ":", "3", "0">>,
     US_MARKET_CLOSE |-> <<"1", "6", ":", "0", "0">>,
     INDIA_MARKET_OPEN |-> <<"0", "9", ":", "1", "5">>,
     INDIA_MARKET_CLOSE |-> <<"1", "5", ":", "3", "0">>]

_TZ_ALIASES == [n \in {"US/Eastern"} |-> "America/New_York"]

\* _tz: the zone pytz returns for the name; where pytz lacks the short
\* alias the canonical name is looked up.
_tz(name, ships_alias) ==
    IF ships_alias \/ name \notin DOMAIN _TZ_ALIASES THEN name
    ELSE _TZ_ALIASES[name]

\* The zone's offset from UTC in seconds at the instant.
utcoffset(zone, dst) ==
    IF zone \in {"US/Eastern", "America/New_York"}
    THEN IF dst THEN -4 * 3600 ELSE -5 * 3600
    ELSE 5 * 3600 + 30 * 60

\* datetime.now(tz): the instant as wall-clock time of the zone.
datetime_now(utc_now, micro, zone, dst) ==
    LET local == (utc_now + utcoffset(zone, dst) + Week) % Week
        sod == local % Day
    IN [weekday |-> local \div Day, hour |-> sod \div 3600,
        minute |-> (sod % 3600) \div 60, second |-> sod % 60,
        micro |-> micro]

\* int(text) for a text of digits.
RECURSIVE int(_)
int(text) ==
    LET digit(ch) ==
            CASE ch = "0" -> 0 [] ch = "1" -> 1 [] ch = "2" -> 2
              [] ch = "3" -> 3 [] ch = "4" -> 4 [] ch = "5" -> 5
              [] ch = "6" -> 6 [] ch = "7" -> 7 [] ch = "8" -> 8
              [] ch = "9" -> 9
    IN IF text = <<>> THEN 0
       ELSE 10 * int(SubSeq(text, 1, Len(text) - 1))
                + digit(text[Len(text)])

\* text.split(':') for a text with one colon.
split(text) ==
    LET k == CHOOSE j \in DOMAIN text : text[j] = ":"
    IN <<SubSeq(text, 1, k - 1), SubSeq(text, k + 1, Len(text))>>

\* str.upper() on the market names the callers and the tests use.
upper(market) ==
    CASE market \in {"India", "india", "INDIA"} -> "INDIA"
      [] market \in {"US", "us"} -> "US"
      [] OTHER -> market

\* a <= b for two wall-clock times of the same day: the fields compare in
\* the order hour, minute, second, microsecond.
TimeLeq(a, b) ==
    LET ord(t) == 2 * (3600 * t.hour + 60 * t.minute + t.second)
                    + (IF t.micro THEN 1 ELSE 0)
    IN ord(a) <= ord(b)

\* is_market_hours closed on Sunday only.
is_market_hours_sunday_only(market, utc_now, micro, dst, ships_alias) ==
    LET india == upper(market) = "INDIA"
        zone == _tz(IF india THEN Config.INDIA_MARKET_TIMEZONE
                    ELSE Config.MARKET_TIMEZONE, ships_alias)
        open == split(IF india THEN Config.INDIA_MARKET_OPEN
                      ELSE Config.US_MARKET_OPEN)
        close == split(IF india THEN Config.INDIA_MARKET_CLOSE
                       ELSE Config.US_MARKET_CLOSE)
        now == datetime_now(utc_now, micro, zone, dst)
        at(hm) == [now EXCEPT !.hour = int(hm[1]), !.minute = int(hm[2]),
                              !.second = 0, !.micro = FALSE]
    IN IF now.weekday >= 6 THEN FALSE
       ELSE TimeLeq(at(open), now) /\ TimeLeq(now, at(close))

is_market_hours(market, utc_now, micro, dst, ships_alias) ==
    LET india == upper(market) = "INDIA"
        zone == _tz(IF india THEN Config.INDIA_MARKET_TIMEZONE
                    ELSE Config.MARKET_TIMEZONE, ships_alias)
        open == split(IF india THEN Config.INDIA_MARKET_OPEN
                      ELSE Config.US_MARKET_OPEN)
        close == split(IF india THEN Config.INDIA_MARKET_CLOSE
                       ELSE Config.US_MARKET_CLOSE)
        now == datetime_now(utc_now, micro, zone, dst)
        at(hm) == [now EXCEPT !.hour = int(hm[1]), !.minute = int(hm[2]),
                              !.second = 0, !.micro = FALSE]
    IN IF now.weekday >= 5 THEN FALSE
       ELSE TimeLeq(at(open), now) /\ TimeLeq(now, at(close))

\* The instants is_market_hours is evaluated at: for every day of the week
\* and every zone, the wall-clock times around the opens and the closes.
UtcSamples ==
    LET times == {<<0, 0, 0>>, <<9, 14, 0>>, <<9, 14, 59>>, <<9, 15, 0>>,
                  <<9, 15, 59>>, <<9, 29, 0>>, <<9, 29, 59>>, <<9, 30, 0>>,
                  <<9, 30, 59>>, <<12, 0, 0>>, <<15, 29, 59>>, <<15, 30, 0>>,
                  <<15, 31, 0>>, <<15, 59, 59>>, <<16, 0, 0>>, <<16, 0, 59>>,
                  <<16, 1, 0>>, <<23, 59, 59>>}
    IN {(d * Day + 3600 * t[1] + 60 * t[2] + t[3] - off + Week) % Week :
           d \in 0..6, t \in times,
           off \in {-5 * 3600, -4 * 3600, 5 * 3600 + 30 * 60}}

Markets == {"US", "India", "india", "LSE"}

\* A job's gate: scheduler_manager.is_market_hours(market).
MarketCheck ==
    /\ mh.pc = "call"
    /\ mh' = [mh EXCEPT !.pc = "done",
                        !.ret = is_market_hours(mh.market, mh.utc_now,
                                    mh.micro, mh.dst, mh.ships_alias)]

not_market == <<ROUTE_VARIANT, OPENCLAW_ENABLED, WEBSOCKET_AVAILABLE,
                agents, agent_runs, calls, run_vars, cs, sched_vars,
                registry_vars, bridge_vars, firing>>

MarketInit ==
    /\ OrchIdle
    /\ agents = [n \in Registered |-> BaseAgent_init(TRUE)]
    /\ RunIdle
    /\ CostIdle
    /\ SchedIdle
    /\ RegistryIdle
    /\ BridgeIdle
    /\ JobsIdle
    /\ mh \in [market : Markets, utc_now : UtcSamples, micro : BOOLEAN,
                dst : BOOLEAN, ships_alias : BOOLEAN, pc : {"call"},
                ret : {FALSE}]

MarketNext == MarketCheck /\ UNCHANGED not_market

SpecMarket == MarketInit /\ [][MarketNext]_vars

(***************************************************************************)
(* AgentRegistry.get_cost_summary.  Here a row of agent_runs carries the   *)
(* columns the three queries read: agent_name, estimated_cost in millionths*)
(* of a dollar (the agents round their estimate to 6 decimals) and         *)
(* created_at as a day number.                                             *)
(***************************************************************************)
MaxRows == 3
Today == 100
CostValues == {0, 40, 10000, 20000}
CreatedValues == {Today - 40, Today - 1}
DaysValues == {7, 30}

CostRow(agent_name, estimated_cost, created_at) ==
    [agent_name |-> agent_name, estimated_cost |-> estimated_cost,
     created_at |-> created_at]

\* SUM(estimated_cost) over the rows with the given ids.
RECURSIVE SumCost(_, _)
SumCost(rows, ids) ==
    IF ids = {} THEN 0
    ELSE LET r == CHOOSE x \in ids : TRUE
         IN rows[r].estimated_cost + SumCost(rows, ids \ {r})

\* round(x, 4) on an amount in millionths: the nearest multiple of 100,
\* a half going to the even multiple.
round4(x) ==
    LET q == x \div 100
        r == x % 100
    IN IF r < 50 THEN 100 * q
       ELSE IF r > 50 THEN 100 * (q + 1)
       ELSE IF q % 2 = 0 THEN 100 * q ELSE 100 * (q + 1)

\* GROUP BY key ... ORDER BY ord DESC: one entry per key, largest first.
RECURSIVE OrderDesc(_, _)
OrderDesc(entries, ord) ==
    IF entries = {} THEN <<>>
    ELSE LET top == CHOOSE e \in entries :
                        \A f \in entries : e[ord] >= f[ord]
         IN <<top>> \o OrderDesc(entries \ {top}, ord)

\* get_cost_summary that leaves out the WHERE created_at > ... clause.
get_cost_summary_no_window(rows, days, db_ok) ==
    LET window == DOMAIN rows
        of(a) == {r \in window : rows[r].agent_name = a}
        on(d) == {r \in window : rows[r].created_at = d}
    IN IF ~db_ok
       THEN [period_days |-> days, total_cost |-> 0, total_runs |-> 0,
             by_agent |-> <<>>, by_day |-> <<>>]
       ELSE [period_days |-> days,
             total_cost |-> round4(SumCost(rows, window)),
             total_runs |-> Cardinality(window),
             by_agent |-> OrderDesc(
                 {[agent_name |-> a, runs |-> Cardinality(of(a)),
                   cost |-> SumCost(rows, of(a))] :
                     a \in {rows[r].agent_name : r \in window}}, "cost"),
             by_day |-> OrderDesc(
                 {[date |-> d, cost |-> SumCost(rows, on(d)),
                   runs |-> Cardinality(on(d))] :
                     d \in {rows[r].created_at : r \in window}}, "date")]

\* get_cost_summary: the total, the per-agent and the per-day query over
\* the rows created in the last `days` days; a database error gives the
\* empty summary.
get_cost_summary(rows, days, db_ok) ==
    LET window == {r \in DOMAIN rows : rows[r].created_at > Today - days}
        of(a) == {r \in window : rows[r].agent_name = a}
        on(d) == {r \in window : rows[r].created_at = d}
    IN IF ~db_ok
       THEN [period_days |-> days, total_cost |-> 0, total_runs |-> 0,
             by_agent |-> <<>>, by_day |-> <<>>]
       ELSE [period_days |-> days,
             total_cost |-> round4(SumCost(rows, window)),
             total_runs |-> Cardinality(window),
             by_agent |-> OrderDesc(
                 {[agent_name |-> a, runs |-> Cardinality(of(a)),
                   cost |-> SumCost(rows, of(a))] :
                     a \in {rows[r].agent_name : r \in window}}, "cost"),
             by_day |-> OrderDesc(
                 {[date |-> d, cost |-> SumCost(rows, on(d)),
                   runs |-> Cardinality(on(d))] :
                     d \in {rows[r].created_at : r \in window}}, "date")]

\* The cost route: registry.get_cost_summary(days).
CostSummary ==
    /\ cs.pc = "call"
    /\ cs' = [cs EXCEPT !.pc = "done",
                        !.ret = get_cost_summary(agent_runs, cs.days,
                                                 cs.db_ok)]

not_cost == <<ROUTE_VARIANT, OPENCLAW_ENABLED, WEBSOCKET_AVAILABLE,
              agents, agent_runs, calls, run_vars, mh, sched_vars,
              registry_vars, bridge_vars, firing>>

CostInit ==
    /\ ROUTE_VARIANT = "7d1eb49"
    /\ OPENCLAW_ENABLED = FALSE
    /\ WEBSOCKET_AVAILABLE = FALSE
    /\ agents = [n \in Registered |-> BaseAgent_init(TRUE)]
    /\ agent_runs \in SeqsUpTo({CostRow(a, c, d) : a \in Registered,
                                  c \in CostValues, d \in CreatedValues},
                               MaxRows)
    /\ calls = <<>>
    /\ RunIdle
    /\ MarketIdle
    /\ cs \in [days : DaysValues, db_ok : BOOLEAN, pc : {"call"},
               ret : {None}]
    /\ SchedIdle
    /\ RegistryIdle
    /\ BridgeIdle
    /\ JobsIdle

CostNext == CostSummary /\ UNCHANGED not_cost

SpecCost == CostInit /\ [][CostNext]_vars

(***************************************************************************)
(* SchedulerManager over APScheduler's BackgroundScheduler.  The clock     *)
(* counts seconds; the calls on the manager fall between two instants of   *)
(* the clock, so a fire time computed from `now` lies after it.  A         *)
(* trigger's arguments are a pair <<keyword, number>>: a cron trigger      *)
(* second='*/n' fires at the multiples of n, an interval trigger seconds=n *)
(* every n from its start date, a date trigger once at its run date.  A    *)
(* manager is the record of _job_registry and scheduler; a scheduler holds *)
(* its jobs (pending ones included) by id and the executions in progress.  *)
(***************************************************************************)
MaxTime == 3
MaxManual == 2

JobIds == {"regime_check"}
CallerJobIds == JobIds \cup {"no_such_job"}

\* The id of a job in the scheduler: the registered id for the recurring
\* job, f'{job_id}_manual_{stamp}' for a one-shot job.
JobId(job_id, stamp) == [job |-> job_id, manual |-> stamp]
NoTime == -1      \* None: no time; as next_run_time, the job is paused
Undefined == -2   \* next_run_time not computed yet: the job is pending
TypeError == [type |-> "TypeError"]
ConflictingIdError == [type |-> "ConflictingIdError"]

\* The schedules the callers ask for; the last one names a keyword the
\* trigger class does not take.
TriggerChoices ==
    {<<"cron", <<"second", 2>>>>, <<"interval", <<"seconds", 2>>>>,
     <<"interval", <<"seconds", 3>>>>, <<"interval", <<"second", 2>>>>}

\* BaseScheduler._create_trigger: the trigger object, or the TypeError of
\* the trigger class.  An interval without start_date starts one interval
\* from now.
_create_trigger(trigger, trigger_args, t) ==
    CASE trigger = "cron" /\ trigger_args[1] = "second" ->
            [type |-> "cron", args |-> trigger_args, start_date |-> NoTime]
      [] trigger = "interval" /\ trigger_args[1] = "seconds" ->
            [type |-> "interval", args |-> trigger_args,
             start_date |-> t + trigger_args[2]]
      [] trigger = "date" /\ trigger_args[1] = "run_date" ->
            [type |-> "date", args |-> trigger_args, start_date |-> NoTime]
      [] OTHER -> TypeError

\* trigger.get_next_fire_time(previous_fire_time, now).
get_next_fire_time(trig, previous, t) ==
    LET n == trig.args[2]
    IN CASE trig.type = "cron" ->
              ((IF previous # NoTime THEN previous ELSE t) \div n + 1) * n
         [] trig.type = "interval" ->
              IF previous # NoTime THEN previous + n
              ELSE IF trig.start_date > t THEN trig.start_date
              ELSE trig.start_date + n * ((t - trig.start_date) \div n + 1)
         [] trig.type = "date" ->
              IF previous = NoTime THEN n ELSE NoTime

\* The scheduler init_app builds or takes from the app: not started, no
\* job, nothing running; either way a job id has at most one running
\* instance (max_instances is 1 in job_defaults and by default).
\* pending_conflict: two pending jobs bear the same id.
BackgroundScheduler ==
    [running |-> FALSE, jobs |-> [j \in {} |-> 0], instances |-> {},
     pending_conflict |-> FALSE]

Put(f, k, v) == [x \in DOMAIN f \cup {k} |-> IF x = k THEN v ELSE f[x]]

\* scheduler.add_job(func, trigger, id=..., replace_existing=..., **args):
\* the scheduler afterwards and whether the call raised (TypeError of the
\* trigger, ConflictingIdError of the job store).  A scheduler that is not
\* running keeps the job pending and looks for no conflict before start.
add_job(s, func, trigger, id, replace_existing, trigger_args, t) ==
    LET trig == _create_trigger(trigger, trigger_args, t)
        conflict == id \in DOMAIN s.jobs /\ ~replace_existing
    IN IF trig = TypeError \/ (conflict /\ s.running)
       THEN [s |-> s, raised |-> TRUE]
       ELSE [s |-> [s EXCEPT
                      !.jobs = Put(@, id,
                          [func |-> func, trigger |-> trig,
                           next_run_time |->
                               IF s.running
                               THEN get_next_fire_time(trig, NoTime, t)
                               ELSE Undefined]),
                      !.pending_conflict = @ \/ conflict],
             raised |-> FALSE]

\* scheduler.pause_job(job_id): next_run_time = None.
apscheduler_pause_job(s, id) ==
    [s EXCEPT !.jobs[id].next_run_time = NoTime]

\* scheduler.resume_job(job_id): the next fire time from now, or the
\* removal of a job whose trigger has run out.
apscheduler_resume_job(s, id, t) ==
    LET n == get_next_fire_time(s.jobs[id].trigger, NoTime, t)
    IN IF n # NoTime THEN [s EXCEPT !.jobs[id].next_run_time = n]
       ELSE [s EXCEPT !.jobs = [x \in DOMAIN @ \ {id} |-> @[x]]]

\* scheduler.reschedule_job(job_id, trigger=..., **args): a new trigger and
\* its next fire time from now.
reschedule_job(s, id, trigger, trigger_args, t) ==
    LET trig == _create_trigger(trigger, trigger_args, t)
    IN IF trig = TypeError THEN [s |-> s, raised |-> TRUE]
       ELSE [s |-> [s EXCEPT !.jobs[id] =
                       [@ EXCEPT !.trigger = trig,
                                 !.next_run_time =
                                     get_next_fire_time(trig, NoTime, t)]],
             raised |-> FALSE]

\* BaseScheduler.start: the pending jobs go to the job store and get
\* their first fire time; two pending jobs of one id make the store raise
\* ConflictingIdError, and the scheduler stays stopped.
start(s, t) ==
    IF s.pending_conflict THEN [s |-> s, raised |-> TRUE]
    ELSE [s |-> [s EXCEPT
                   !.running = TRUE,
                   !.jobs = [id \in DOMAIN s.jobs |->
                       IF s.jobs[id].next_run_time = Undefined
                       THEN [s.jobs[id] EXCEPT !.next_run_time =
                                get_next_fire_time(s.jobs[id].trigger,
                                                   NoTime, t)]
                       ELSE s.jobs[id]]],
          raised |-> FALSE]

\* SchedulerManager after init_app and register_job(job_id, ..., trigger):
\* the descriptors are enabled, the scheduler is built and not started.
SchedulerManager(trigger, trigger_args) ==
    [_job_registry |-> [j \in JobIds |->
         [trigger |-> trigger, trigger_args |-> trigger_args,
          enabled |-> TRUE]],
     scheduler |-> BackgroundScheduler]

\* The part of the manager's add_job calls that is the same in
\* start_all_jobs, resume_job and update_job_schedule.
add_registered(s, job_id, trigger, trigger_args, t) ==
    add_job(s, job_id, trigger, JobId(job_id, NoTime), TRUE, trigger_args, t)

\* start_all_jobs on manager m: every enabled descriptor is added (a
\* failing add is logged and skipped), then the scheduler is started; what
\* start raises leaves the method.
start_all_jobs(m, t) ==
    LET RECURSIVE loop(_, _)
        loop(s, todo) ==
            IF todo = {} THEN s
            ELSE LET j == CHOOSE x \in todo : TRUE
                     meta == m._job_registry[j]
                 IN loop(IF meta.enabled
                         THEN add_registered(s, j, meta.trigger,
                                             meta.trigger_args, t).s
                         ELSE s, todo \ {j})
        s1 == loop(m.scheduler, DOMAIN m._job_registry)
        r == IF s1.running THEN [s |-> s1, raised |-> FALSE]
             ELSE start(s1, t)
    IN [m |-> [m EXCEPT !.scheduler = r.s],
        ret |-> IF r.raised THEN ConflictingIdError ELSE None]

\* pause_job on manager m.
pause_job(m, job_id) ==
    IF job_id \notin DOMAIN m._job_registry THEN [m |-> m, ret |-> FALSE]
    ELSE [m |-> [m EXCEPT
                   !.scheduler = IF JobId(job_id, NoTime) \in DOMAIN @.jobs
                                 THEN apscheduler_pause_job(@,
                                          JobId(job_id, NoTime))
                                 ELSE @,
                   !._job_registry[job_id].enabled = FALSE],
          ret |-> TRUE]

\* resume_job on manager m.
resume_job(m, job_id, t) ==
    IF job_id \notin DOMAIN m._job_registry THEN [m |-> m, ret |-> FALSE]
    ELSE LET meta == m._job_registry[job_id]
             id == JobId(job_id, NoTime)
             r == IF id \in DOMAIN m.scheduler.jobs
                  THEN [s |-> apscheduler_resume_job(m.scheduler, id, t),
                        raised |-> FALSE]
                  ELSE add_registered(m.scheduler, job_id, meta.trigger,
                                      meta.trigger_args, t)
         IN IF r.raised THEN [m |-> m, ret |-> FALSE]
            ELSE [m |-> [m EXCEPT !.scheduler = r.s,
                                  !._job_registry[job_id].enabled = TRUE],
                  ret |-> TRUE]

\* trigger_job on manager m.
trigger_job(m, job_id, t) ==
    IF job_id \notin DOMAIN m._job_registry THEN [m |-> m, ret |-> FALSE]
    ELSE LET r == add_job(m.scheduler, job_id, "date", JobId(job_id, t),
                          FALSE, <<"run_date", t>>, t)
         IN [m |-> [m EXCEPT !.scheduler = r.s], ret |-> ~r.raised]

\* update_job_schedule on manager m: the registry is written first, then
\* the scheduler is asked; what it raises is logged.
update_job_schedule(m, job_id, trigger, trigger_args, t) ==
    IF job_id \notin DOMAIN m._job_registry THEN [m |-> m, ret |-> FALSE]
    ELSE LET id == JobId(job_id, NoTime)
             m1 == [m EXCEPT
                      !._job_registry[job_id].trigger = trigger,
                      !._job_registry[job_id].trigger_args = trigger_args]
             r == IF id \in DOMAIN m.scheduler.jobs
                  THEN reschedule_job(m.scheduler, id, trigger,
                                      trigger_args, t)
                  ELSE add_registered(m.scheduler, job_id, trigger,
                                      trigger_args, t)
         IN [m |-> [m1 EXCEPT !.scheduler = r.s], ret |-> ~r.raised]

\* The ids of the jobs of scheduler s that are due at t.
due_jobs(s, t) ==
    {id \in DOMAIN s.jobs : /\ s.running
                            /\ s.jobs[id].next_run_time >= 0
                            /\ s.jobs[id].next_run_time <= t}

\* BaseScheduler._process_jobs at t: every due job is submitted once for
\* its latest run time (coalesce) unless an instance of its id is still
\* running (max_instances = 1), then gets its next fire time or, when its
\* trigger has run out, is removed.
_process_jobs(s, t) ==
    LET RECURSIVE last_run(_, _)
        last_run(trig, run_time) ==
            LET n == get_next_fire_time(trig, run_time, t)
            IN IF n = NoTime \/ n > t THEN run_time
               ELSE last_run(trig, n)
        next(id) == get_next_fire_time(s.jobs[id].trigger,
                        last_run(s.jobs[id].trigger,
                                 s.jobs[id].next_run_time), t)
        due == due_jobs(s, t)
        busy == {e.id : e \in s.instances}
    IN [s EXCEPT
          !.instances = @ \cup
              {[id |-> id, func |-> s.jobs[id].func,
                trigger |-> s.jobs[id].trigger.type,
                trigger_args |-> s.jobs[id].trigger.args] :
                  id \in due \ busy},
          !.jobs = [id \in {x \in DOMAIN s.jobs :
                               x \in due => next(x) # NoTime} |->
                       IF id \in due
                       THEN [s.jobs[id] EXCEPT !.next_run_time = next(id)]
                       ELSE s.jobs[id]]]

not_sched == <<ROUTE_VARIANT, OPENCLAW_ENABLED, WEBSOCKET_AVAILABLE,
               agents, agent_runs, calls, run_vars, mh, cs,
               registry_vars, bridge_vars, firing>>

\* A call of a method of the manager: r is what the method gives on
\* scheduler_manager, shadow what the same calls without any pause_job and
\* resume_job have made of a manager that started out the same.
ManagerCall(op, job_id, r, shadow) ==
    /\ scheduler_manager' = r.m
    /\ never_paused' = shadow
    /\ last_call' = [op |-> op, job_id |-> job_id, ret |-> r.ret,
                     manuals |-> last_call.manuals
                                   + (IF op = "trigger_job" THEN 1 ELSE 0)]
    /\ UNCHANGED <<clock, not_sched>>

\* The scheduler's thread wakes up for the due jobs.
ProcessJobs ==
    /\ due_jobs(scheduler_manager.scheduler, clock)
          \cup due_jobs(never_paused.scheduler, clock) # {}
    /\ scheduler_manager' = [scheduler_manager EXCEPT
                                !.scheduler = _process_jobs(@, clock)]
    /\ never_paused' = [never_paused EXCEPT
                           !.scheduler = [_process_jobs(@, clock) EXCEPT
                                             !.instances = {}]]
    /\ UNCHANGED <<clock, last_call, not_sched>>

\* A job function returns in the executor's pool.
JobDone(e) ==
    /\ e \in scheduler_manager.scheduler.instances
    /\ scheduler_manager' = [scheduler_manager EXCEPT
                                !.scheduler.instances = @ \ {e}]
    /\ UNCHANGED <<clock, never_paused, last_call, not_sched>>

\* A second passes; the scheduler's thread has served the jobs due before.
Tick ==
    /\ clock < MaxTime
    /\ due_jobs(scheduler_manager.scheduler, clock) = {}
    /\ due_jobs(never_paused.scheduler, clock) = {}
    /\ clock' = clock + 1
    /\ UNCHANGED <<scheduler_manager, never_paused, last_call, not_sched>>

SchedInit ==
    /\ OrchIdle
    /\ agents = [n \in Registered |-> BaseAgent_init(TRUE)]
    /\ RunIdle
    /\ MarketIdle
    /\ CostIdle
    /\ RegistryIdle
    /\ BridgeIdle
    /\ JobsIdle
    /\ \E c \in TriggerChoices :
          /\ _create_trigger(c[1], c[2], 0) # TypeError
          /\ scheduler_manager = SchedulerManager(c[1], c[2])
    /\ never_paused = scheduler_manager
    /\ clock = 0
    /\ last_call = [op |-> "register_job", job_id |-> "regime_check",
                    ret |-> TRUE, manuals |-> 0]

SchedNext ==
    \/ ManagerCall("start_all_jobs", "",
                   start_all_jobs(scheduler_manager, clock),
                   start_all_jobs(never_paused, clock).m)
    \/ \E j \in CallerJobIds :
          ManagerCall("pause_job", j, pause_job(scheduler_manager, j),
                      never_paused)
    \/ \E j \in CallerJobIds :
          ManagerCall("resume_job", j, resume_job(scheduler_manager, j, clock),
                      never_paused)
    \/ \E j \in CallerJobIds :
          /\ last_call.manuals < MaxManual
          /\ ManagerCall("trigger_job", j,
                         trigger_job(scheduler_manager, j, clock), never_paused)
    \/ \E j \in CallerJobIds, c \in TriggerChoices :
          ManagerCall("update_job_schedule", j,
              update_job_schedule(scheduler_manager, j, c[1], c[2], clock),
              update_job_schedule(never_paused, j, c[1], c[2], clock).m)
    \/ ProcessJobs
    \/ \E e \in scheduler_manager.scheduler.instances : JobDone(e)
    \/ Tick

SpecSched == SchedInit /\ [][SchedNext]_vars

(***************************************************************************)
(* poll_result against the clock.  Time is counted in half seconds from    *)
(* poll_result's start_time.  bridge is the OpenClawBridge of above; poll  *)
(* is the one poll_result call under way or last finished: its arguments,  *)
(* the time elapsed, the last thing recv() did, whether a message with     *)
(* another id was discarded, and the Result returned.                      *)
(* Calls on the bridge follow one another (one caller).                    *)
(***************************************************************************)
MaxLog == 5
MaxTimeout == 12
RecvWindow == 10   \* min(timeout, 5.0)
Backoff == 1       \* time.sleep(0.5)

not_bridge == <<ROUTE_VARIANT, OPENCLAW_ENABLED, WEBSOCKET_AVAILABLE,
                agents, agent_runs, calls, run_vars, mh, cs, sched_vars,
                registry_vars, firing>>

\* What one recv() can do: nothing in time, an empty frame, an exception,
\* a frame json.loads or message.get rejects, or a message; result_ok is
\* whether the message's "result" is a dict.
RecvEvents ==
    {[k |-> e, id |-> OtherId, error |-> FALSE, result_ok |-> TRUE] :
        e \in {"recv_timeout", "empty", "recv_exc", "garbage"}}
    \cup {[k |-> "message", id |-> i, error |-> e, result_ok |-> r] :
            i \in {OtherId, 1, 2}, e \in BOOLEAN, r \in BOOLEAN}

\* self._ws.settimeout(min(timeout, 5.0)): the longest one recv() blocks.
\* Without the call the socket keeps create_connection's timeout=10.
settimeout_not_called(timeout) == 2 * RecvWindow

settimeout(timeout) == IF timeout < RecvWindow THEN timeout ELSE RecvWindow

TimeoutResult(agent_name, timeout) ==
    AgentResult(agent_name, "openclaw", "error",
                "Timeout after " \o ToString(timeout \div 2)
                    \o (IF timeout % 2 = 0 THEN ".0" ELSE ".5")
                    \o "s waiting for OpenClaw result")

\* The body of the receive loop for one recv(), accepting any message.
loop_body_any_id(ev, task_id, agent_name) ==
    LET go(next) == [next |-> next, ret |-> None]
        return(status, error) ==
            [next |-> "return",
             ret |-> AgentResult(agent_name, "openclaw", status, error)]
    IN CASE ev.k = "recv_timeout" -> go("continue")
         [] ev.k \in {"empty", "recv_exc", "garbage"} -> go("sleep")
         [] ev.error -> return("error", "server_error")
         [] ~ev.result_ok -> go("sleep")
         [] OTHER -> return("success", NoError)

\* The body of the receive loop for one recv(): what comes next
\* ("continue", "sleep" for the half second slept before continuing, or
\* "return") and the Result returned.
loop_body(ev, task_id, agent_name) ==
    LET go(next) == [next |-> next, ret |-> None]
        return(status, error) ==
            [next |-> "return",
             ret |-> AgentResult(agent_name, "openclaw", status, error)]
    IN CASE ev.k = "recv_timeout" -> go("continue")
         [] ev.k \in {"empty", "recv_exc", "garbage"} -> go("sleep")
         [] ev.id # task_id -> go("continue")
         [] ev.error -> return("error", "server_error")
         [] ~ev.result_ok -> go("sleep")
         [] OTHER -> return("success", NoError)

Connect(env) ==
    /\ poll.pc # "loop"
    /\ Len(bridge.log) < MaxLog
    /\ bridge' = connect(bridge, env).b
    /\ UNCHANGED <<poll, not_bridge>>

Disconnect ==
    /\ poll.pc # "loop"
    /\ Len(bridge.log) < MaxLog
    /\ bridge' = IF bridge.ws
                 THEN [Log(bridge, "disconnect") EXCEPT !.ws = FALSE,
                                                        !.connected = FALSE]
                 ELSE Log(bridge, "disconnect")
    /\ UNCHANGED <<poll, not_bridge>>

SendTask(env) ==
    /\ poll.pc # "loop"
    /\ Len(bridge.log) < MaxLog
    /\ bridge' = send_task(bridge, env, "regime").b
    /\ UNCHANGED <<poll, not_bridge>>

\* poll_result up to the first test of the while condition.
PollStart(task_id, timeout, settimeout_ok) ==
    LET agent_name == PendingAgent(bridge, task_id)
        call == [pc |-> "done", task_id |-> task_id, timeout |-> timeout,
                 agent_name |-> agent_name, elapsed |-> 0,
                 last |-> None, discarded |-> FALSE, ret |-> None]
    IN /\ poll.pc # "loop"
       /\ Len(bridge.log) < MaxLog
       /\ bridge' = Log(bridge, "poll_result")
       /\ poll' = IF ~bridge.connected \/ ~bridge.ws
                  THEN [call EXCEPT !.ret =
                           AgentResult(agent_name, "openclaw", "error",
                                       "Not connected to OpenClaw Gateway")]
                  ELSE IF ~settimeout_ok
                  THEN [call EXCEPT !.ret =
                           AgentResult(agent_name, "openclaw", "error",
                                       "settimeout_error")]
                  ELSE [call EXCEPT !.pc = "loop"]
       /\ UNCHANGED not_bridge

\* One turn of the while loop: recv() answers with ev after d half seconds,
\* the body runs, and the while condition is tested again.
PollRecv(ev, d) ==
    LET window == settimeout(poll.timeout)
        body == loop_body(ev, poll.task_id, poll.agent_name)
        other == ev.k = "message" /\ ev.id # poll.task_id
        woke == poll.elapsed + d
                    + (IF body.next = "sleep" THEN Backoff ELSE 0)
    IN /\ poll.pc = "loop"
       /\ d \in 0..window
       /\ ev.k = "recv_timeout" => d = window
       /\ poll' = IF body.next = "return"
                  THEN [poll EXCEPT !.pc = "done", !.last = ev,
                                    !.ret = body.ret, !.elapsed = @ + d]
                  ELSE IF woke < poll.timeout
                  THEN [poll EXCEPT !.last = ev, !.elapsed = woke,
                                    !.discarded = @ \/ other]
                  ELSE [poll EXCEPT !.pc = "done", !.last = ev,
                                    !.elapsed = woke,
                                    !.discarded = @ \/ other,
                                    !.ret = TimeoutResult(poll.agent_name,
                                                          poll.timeout)]
       /\ UNCHANGED <<bridge, not_bridge>>

BridgeInit ==
    /\ ROUTE_VARIANT = "7d1eb49"
    /\ OPENCLAW_ENABLED = TRUE
    /\ WEBSOCKET_AVAILABLE = TRUE
    /\ agent_runs = <<>>
    /\ calls = <<>>
    /\ agents = [n \in Registered |-> BaseAgent_init(TRUE)]
    /\ RunIdle
    /\ MarketIdle
    /\ CostIdle
    /\ SchedIdle
    /\ RegistryIdle
    /\ JobsIdle
    /\ bridge = OpenClawBridge_init
    /\ poll = [pc |-> "done", task_id |-> NoTaskId, timeout |-> MaxTimeout,
               agent_name |-> "unknown", elapsed |-> 0, last |-> None,
               discarded |-> FALSE, ret |-> None]

BridgeNext ==
    \/ \E ok \in BOOLEAN : Connect([connect_ok |-> ok])
    \/ Disconnect
    \/ \E c, s \in BOOLEAN : SendTask([connect_ok |-> c, send_ok |-> s])
    \/ \E task_id \in {1, 2}, timeout \in {2, MaxTimeout}, ok \in BOOLEAN :
          PollStart(task_id, timeout, ok)
    \/ \E ev \in RecvEvents, d \in {0, 1, 2, RecvWindow} : PollRecv(ev, d)

SpecBridge == BridgeInit /\ [][BridgeNext]_vars

(***************************************************************************)
(* The jobs gated by market hours.  firing is one firing of one of them:   *)
(* the instant it reads the clock at, what its watchlist and its agent     *)
(* hold for it, the ctx job_timer handed it (status, agent_name), and the  *)
(* calls it has made so far (effects).  job_timer and _send_sse are called *)
(* by the jobs and defined outside them: a call of _send_sse is recorded,  *)
(* what job_timer does with ctx after the with-block is not part of the    *)
(* firing.                                                                 *)
(***************************************************************************)
GatedJobs == {"technical_monitor", "regime_check", "reddit_scanner"}

not_jobs == <<ROUTE_VARIANT, OPENCLAW_ENABLED, WEBSOCKET_AVAILABLE,
              agents, agent_runs, calls, run_vars, mh, cs, sched_vars,
              registry_vars, bridge_vars>>

\* The gate every gated job begins with: the call of is_market_hours('US')
\* and, when it answers False, ctx['status'] = 'skipped' and the return.
market_hours_gate(f) ==
    LET checked == [f EXCEPT !.effects = Append(@, "is_market_hours")]
    IN IF ~is_market_hours("US", f.utc_now, f.micro, f.dst, f.ships_alias)
       THEN [checked EXCEPT !.status = "skipped", !.pc = "done"]
       ELSE [checked EXCEPT !.pc = "open"]

\* registry.run_agent(name, ...) and the two tests of what it returned.
run_agent_step(f, name) ==
    LET ran == [f EXCEPT !.agent_name = name,
                         !.effects = Append(@, "run_agent")]
    IN IF f.agent_result # "success"
       THEN [ran EXCEPT !.status = "error", !.pc = "done"]
       ELSE [ran EXCEPT !.pc = "publish"]

\* The watchlist jobs after the gate: an empty ticker list is skipped, the
\* agent runs, and _send_sse is called when the output held something.
watchlist_job(f, name) ==
    CASE f.pc = "gate" -> market_hours_gate(f)
      [] f.pc = "open" ->
           IF f.tickers = 0
           THEN [f EXCEPT !.status = "skipped", !.pc = "done"]
           ELSE [f EXCEPT !.pc = "agent"]
      [] f.pc = "agent" -> run_agent_step(f, name)
      [] f.pc = "publish" ->
           [f EXCEPT !.pc = "done",
                     !.effects = IF f.found THEN Append(@, "_send_sse")
                                 ELSE @]

run_technical_monitor ==
    /\ firing.job = "technical_monitor"
    /\ firing.pc # "done"
    /\ firing' = watchlist_job(firing, "scanner")
    /\ UNCHANGED not_jobs

\* run_regime_check going on to the agent without the gate.
run_regime_check_ungated ==
    /\ firing.job = "regime_check"
    /\ firing.pc # "done"
    /\ firing' = CASE firing.pc \in {"gate", "open"} ->
                        [firing EXCEPT !.pc = "agent"]
                   [] firing.pc = "agent" -> run_agent_step(firing, "regime")
                   [] firing.pc = "publish" ->
                        [firing EXCEPT !.pc = "done",
                                       !.effects = Append(@, "_send_sse")]
    /\ UNCHANGED not_jobs

run_regime_check ==
    /\ firing.job = "regime_check"
    /\ firing.pc # "done"
    /\ firing' = CASE firing.pc = "gate" -> market_hours_gate(firing)
                   [] firing.pc = "open" -> [firing EXCEPT !.pc = "agent"]
                   [] firing.pc = "agent" -> run_agent_step(firing, "regime")
                   [] firing.pc = "publish" ->
                        [firing EXCEPT !.pc = "done",
                                       !.effects = Append(@, "_send_sse")]
    /\ UNCHANGED not_jobs

run_reddit_scan ==
    /\ firing.job = "reddit_scanner"
    /\ firing.pc # "done"
    /\ firing' = watchlist_job(firing, "investigator")
    /\ UNCHANGED not_jobs

JobsInit ==
    /\ OrchIdle
    /\ agents = [n \in Registered |-> BaseAgent_init(TRUE)]
    /\ RunIdle
    /\ MarketIdle
    /\ CostIdle
    /\ SchedIdle
    /\ RegistryIdle
    /\ BridgeIdle
    /\ firing \in [job : GatedJobs, utc_now : UtcSamples, micro : {FALSE},
                   dst : BOOLEAN, ships_alias : {TRUE}, tickers : {0, 1},
                   agent_result : {"None", "error", "success"},
                   found : BOOLEAN, pc : {"gate"}, status : {"success"},
                   agent_name : {"None"}, effects : {<<>>}]

JobsNext ==
    \/ run_technical_monitor
    \/ run_regime_check
    \/ run_reddit_scan

SpecJobs == JobsInit /\ [][JobsNext]_vars

(***************************************************************************)
(* The registry singleton and the registry's agent map, thread by thread.  *)
(* heap holds the AgentRegistry objects built so far, _registry the        *)
(* position of the published one (0: None).  Each caller is one thread in  *)
(* one of get_registry, AgentRegistry.register and list_agents; pc is the  *)
(* line it stands before.                                                  *)
(***************************************************************************)
MaxCallers == 3

\* The agents create_default_agents registers, in its order.
DefaultAgents == <<"scanner", "regime">>
RuntimeError == [type |-> "RuntimeError"]

not_registry == <<ROUTE_VARIANT, OPENCLAW_ENABLED, WEBSOCKET_AVAILABLE,
                  agents, agent_runs, calls, run_vars, mh, cs, sched_vars,
                  bridge_vars, firing>>

\* A thread enters one of the three functions; register and list_agents
\* are called on the registry get_registry gave out.
Call(t, op, name) ==
    /\ callers[t].op = "none"
    /\ op # "get_registry" => _registry # 0
    /\ callers' = [callers EXCEPT ![t] =
          [@ EXCEPT !.op = op, !.name = name, !.self = _registry,
                    !.pc = CASE op = "get_registry" -> "l89"
                             [] op = "register" -> "l188"
                             [] OTHER -> "l198"]]
    /\ UNCHANGED <<_registry, _registry_lock, heap, not_registry>>

\* create_default_agents in thread t: a new AgentRegistry, then one
\* registry.register(agent) per default agent, then the return.
create_default_agents(t) ==
    LET c == callers[t]
        done == Len(heap[c.self]._agents)
    IN /\ c.op = "get_registry"
       /\ c.pc \in {"create", "register"}
       /\ IF c.pc = "create"
          THEN /\ heap' = Append(heap, [_agents |-> <<>>, _lock |-> 0])
               /\ callers' = [callers EXCEPT ![t].self = Len(heap) + 1,
                                             ![t].pc = "register"]
          ELSE IF done < Len(DefaultAgents)
          THEN /\ heap' = [heap EXCEPT ![c.self]._agents =
                              Append(@, DefaultAgents[done + 1])]
               /\ UNCHANGED callers
          ELSE /\ callers' = [callers EXCEPT ![t].pc = "l98"]
               /\ UNCHANGED heap
       /\ UNCHANGED <<_registry, _registry_lock, not_registry>>

\* get_registry entering the locked block without taking _registry_lock.
get_registry_unlocked(t) ==
    LET c == callers[t]
        goto(pc) == callers' = [callers EXCEPT ![t].pc = pc]
    IN /\ c.op = "get_registry"
       /\ CASE c.pc = "l89" ->
                 /\ IF _registry # 0
                    THEN callers' = [callers EXCEPT ![t].pc = "done",
                                                    ![t].ret = _registry]
                    ELSE goto("l91")
                 /\ UNCHANGED <<_registry, _registry_lock>>
            [] c.pc = "l91" ->
                 /\ goto("l92")
                 /\ UNCHANGED <<_registry, _registry_lock>>
            [] c.pc = "l92" ->
                 /\ IF _registry = 0 THEN goto("create")
                    ELSE callers' = [callers EXCEPT ![t].pc = "exit",
                                                    ![t].waited = TRUE]
                 /\ UNCHANGED <<_registry, _registry_lock>>
            [] c.pc = "l98" ->
                 /\ _registry' = c.self
                 /\ goto("exit")
                 /\ UNCHANGED _registry_lock
            [] c.pc = "exit" ->
                 /\ _registry_lock' = 0
                 /\ goto("l99")
                 /\ UNCHANGED _registry
            [] c.pc = "l99" ->
                 /\ callers' = [callers EXCEPT ![t].pc = "done",
                                               ![t].ret = _registry]
                 /\ UNCHANGED <<_registry, _registry_lock>>
            [] OTHER -> FALSE
       /\ UNCHANGED <<heap, not_registry>>

\* get_registry in thread t, one line at a time: the unlocked test, the
\* with-block (entered when the lock is free), the test under the lock,
\* the assignment of what create_default_agents returned, the return.
get_registry(t) ==
    LET c == callers[t]
        goto(pc) == callers' = [callers EXCEPT ![t].pc = pc]
    IN /\ c.op = "get_registry"
       /\ CASE c.pc = "l89" ->
                 /\ IF _registry # 0
                    THEN callers' = [callers EXCEPT ![t].pc = "done",
                                                    ![t].ret = _registry]
                    ELSE goto("l91")
                 /\ UNCHANGED <<_registry, _registry_lock>>
            [] c.pc = "l91" ->
                 /\ _registry_lock = 0
                 /\ _registry_lock' = t
                 /\ goto("l92")
                 /\ UNCHANGED _registry
            [] c.pc = "l92" ->
                 /\ IF _registry = 0 THEN goto("create")
                    ELSE callers' = [callers EXCEPT ![t].pc = "exit",
                                                    ![t].waited = TRUE]
                 /\ UNCHANGED <<_registry, _registry_lock>>
            [] c.pc = "l98" ->
                 /\ _registry' = c.self
                 /\ goto("exit")
                 /\ UNCHANGED _registry_lock
            [] c.pc = "exit" ->
                 /\ _registry_lock' = 0
                 /\ goto("l99")
                 /\ UNCHANGED _registry
            [] c.pc = "l99" ->
                 /\ callers' = [callers EXCEPT ![t].pc = "done",
                                               ![t].ret = _registry]
                 /\ UNCHANGED <<_registry, _registry_lock>>
            [] OTHER -> FALSE
       /\ UNCHANGED <<heap, not_registry>>

\* AgentRegistry.register in thread t: with self._lock, the store into
\* the map (a new key goes to the end, a known key keeps its place).
register(t) ==
    LET c == callers[t]
        r == heap[c.self]
        known == \E k \in DOMAIN r._agents : r._agents[k] = c.name
    IN /\ c.op = "register"
       /\ CASE c.pc = "l188" ->
                 /\ r._lock = 0
                 /\ heap' = [heap EXCEPT ![c.self]._lock = t]
                 /\ callers' = [callers EXCEPT ![t].pc = "l189"]
            [] c.pc = "l189" ->
                 /\ heap' = [heap EXCEPT ![c.self]._agents =
                                IF known THEN @ ELSE Append(@, c.name)]
                 /\ callers' = [callers EXCEPT ![t].pc = "exit"]
            [] c.pc = "exit" ->
                 /\ heap' = [heap EXCEPT ![c.self]._lock = 0]
                 /\ callers' = [callers EXCEPT ![t].pc = "done"]
            [] OTHER -> FALSE
       /\ UNCHANGED <<_registry, _registry_lock, not_registry>>

\* list_agents in thread t: the iteration over self._agents.values(), one
\* agent per step; the dict's iterator raises when the size of the map is
\* no longer the one the iteration began with.
list_agents(t) ==
    LET c == callers[t]
        values == heap[c.self]._agents
    IN /\ c.op = "list_agents"
       /\ c.pc = "l198"
       /\ callers' = [callers EXCEPT ![t] =
             IF c.pos = 0
             THEN [@ EXCEPT !.pos = 1, !.size = Len(values)]
             ELSE IF Len(values) # c.size
             THEN [@ EXCEPT !.pc = "done", !.ret = RuntimeError]
             ELSE IF c.pos > Len(values)
             THEN [@ EXCEPT !.pc = "done", !.ret = c.seen]
             ELSE [@ EXCEPT !.seen = Append(@, values[c.pos]),
                            !.pos = @ + 1]]
       /\ UNCHANGED <<_registry, _registry_lock, heap, not_registry>>

RegistryInit ==
    /\ OrchIdle
    /\ agents = [n \in Registered |-> BaseAgent_init(TRUE)]
    /\ RunIdle
    /\ MarketIdle
    /\ CostIdle
    /\ SchedIdle
    /\ BridgeIdle
    /\ JobsIdle
    /\ _registry = 0
    /\ _registry_lock = 0
    /\ heap = <<>>
    /\ callers = [t \in 1..MaxCallers |->
                     [op |-> "none", name |-> "", self |-> 0, pc |-> "done",
                      pos |-> 0, size |-> 0, seen |-> <<>>, ret |-> None,
                      waited |-> FALSE]]

RegistryNext ==
    \/ \E t \in 1..MaxCallers : Call(t, "get_registry", "")
    \/ \E t \in 1..MaxCallers, n \in {"regime", "custom"} :
          Call(t, "register", n)
    \/ \E t \in 1..MaxCallers : Call(t, "list_agents", "")
    \/ \E t \in 1..MaxCallers : get_registry(t)
    \/ \E t \in 1..MaxCallers : create_default_agents(t)
    \/ \E t \in 1..MaxCallers : register(t)
    \/ \E t \in 1..MaxCallers : list_agents(t)

SpecRegistry == RegistryInit /\ [][RegistryNext]_vars

(***************************************************************************)
(* Properties                                                              *)
(***************************************************************************)
Range(q) == {q[k] : k \in DOMAIN q}

RowsOf(i) == {r \in DOMAIN agent_runs : agent_runs[r].inv = i}

RunNow(c) == c.kind \in {"head", "async"}

\* _dispatch has returned in invocation c.
Dispatched(c) == RunNow(c) /\ c.pc \in {"persist", "latest", "update", "done"}
                           /\ c.http \notin {400, 404}

\* C1: every accepted run-now trigger of an enabled, registered agent has
\* exactly one agent_runs row once it is finished, and never more than one,
\* whichever backend serviced it.
C1_ExactlyOneRowPerTrigger ==
    \A i \in DOMAIN calls :
        RunNow(calls[i]) =>
            /\ Cardinality(RowsOf(i)) <= 1
            /\ (calls[i].pc = "done" /\ calls[i].http = 200
                    => Cardinality(RowsOf(i)) = 1)

\* C2: when the worker of an asynchronous run has finished, the row it
\* pre-inserted with status 'running' carries status success or error.
C2_NoRowLeftRunning ==
    \A i \in DOMAIN calls :
        (calls[i].kind = "async" /\ calls[i].pc = "done"
            /\ calls[i].run_id # 0)
        => agent_runs[calls[i].run_id].status \in {"success", "error"}

\* The transport raised in send_task: a send was made, no task is pending.
SendFailed(c) ==
    /\ c.bridge # None
    /\ "send" \in Range(c.bridge.log)
    /\ c.bridge.pending_tasks = {}

\* C3: when the gateway is enabled and reports itself available but the
\* send of the task fails on the transport, _dispatch returns the native
\* backend's Result.
C3_SendFailureFallsBackToNative ==
    \A i \in DOMAIN calls :
        (Dispatched(calls[i]) /\ calls[i].available /\ SendFailed(calls[i]))
        => calls[i].result.framework = "native"

\* C5: no error Result of the gateway (send failure, poll timeout, error
\* reported by the server) is what _dispatch returns: the native backend
\* remains, so the caller gets the native backend's Result.
C5_GatewayErrorNeverSurfaces ==
    \A i \in DOMAIN calls :
        (Dispatched(calls[i]) /\ calls[i].result.status = "error")
        => calls[i].result.framework = "native"

GatewayCalls == {"run_task", "send_task", "connect", "send", "poll_result"}

\* C4: with the gateway flag unset an invocation makes no call on a bridge
\* (none is built); with the flag set and is_available() false no task is
\* sent; a task is sent only with the flag set and is_available() true.
C4_GatewayOnlyWhenEnabledAndAvailable ==
    \A i \in DOMAIN calls :
        LET c == calls[i]
        IN /\ ~OPENCLAW_ENABLED => c.bridge = None
           /\ (c.bridge # None /\ ~c.available)
                  => Range(c.bridge.log) \cap GatewayCalls = {}
           /\ (c.bridge # None /\ "send" \in Range(c.bridge.log))
                  => OPENCLAW_ENABLED /\ c.available

\* A run-now dispatch finished with the flag unset and no bridge call.
C4_Witness ==
    \E i \in DOMAIN calls :
        /\ Dispatched(calls[i])
        /\ ~OPENCLAW_ENABLED
        /\ calls[i].bridge = None
        /\ calls[i].result.framework = "native"

WellFormed(c) ==
    /\ c.result # None
    /\ c.result.agent_name = c.real
    /\ c.result.framework \in {"openclaw", "native"}
    /\ c.result.status \in {"success", "error"}
    /\ c.result.status = "error" <=> c.result.error # NoError

\* C7: _dispatch never raises and always returns a well-formed AgentResult
\* whose error field is set when its status is 'error', whatever the
\* gateway does and whether execute returns a Result, raises or returns
\* nothing.
C7_DispatchAlwaysReturnsResult ==
    \A i \in DOMAIN calls :
        RunNow(calls[i]) =>
            /\ calls[i].pc # "crashed"
            /\ Dispatched(calls[i]) => WellFormed(calls[i])

\* execute returned no Result and _dispatch still returned an error Result.
C7_Witness ==
    \E i \in DOMAIN calls :
        /\ Dispatched(calls[i])
        /\ calls[i].exec # None
        /\ calls[i].exec.kind = "none"
        /\ calls[i].result.status = "error"
        /\ calls[i].result.error # NoError

\* The invocations the step has started.
Started == DOMAIN calls' \ DOMAIN calls

\* C8 as stated: run_agent for a name that is not registered returns an
\* error Result and writes no row.
C8_UnknownAgentGetsErrorResult ==
    \A i \in DOMAIN calls :
        (calls[i].kind = "job" /\ calls[i].name \notin DOMAIN agents
            /\ calls[i].pc = "done")
        => /\ calls[i].result # None
           /\ calls[i].result.status = "error"
           /\ RowsOf(i) = {}

\* C8 amended: run_agent for a name that is not registered returns None
\* (no Result), runs nothing, writes no agent_runs row and changes no
\* agent's state.
C8_UnknownAgentReturnsNone ==
    /\ [][\A i \in Started :
            (calls'[i].kind = "job" /\ calls'[i].name \notin DOMAIN agents)
            => /\ calls'[i].pc = "done"
               /\ calls'[i].result = None
               /\ calls'[i].exec = None
               /\ agent_runs' = agent_runs
               /\ agents' = agents]_vars
    /\ [](\A i \in DOMAIN calls :
            (calls[i].kind = "job" /\ calls[i].name \notin DOMAIN agents)
            => RowsOf(i) = {})

\* run_agent was called for an unregistered name and returned.
C8_Witness ==
    \E i \in DOMAIN calls :
        /\ calls[i].kind = "job"
        /\ calls[i].name \notin DOMAIN agents
        /\ calls[i].pc = "done"
        /\ calls[i].result = None

DisabledCall(c) == c.real \in DOMAIN agents /\ ~agents[c.real].enabled

\* C9: running a disabled agent is refused: run_agent returns the error
\* Result with framework 'disabled' and error 'Agent is disabled', which no
\* Result of a run carries; the run-now route answers 400; in both cases
\* execute is not invoked, no agent's status, run_count or last_result
\* changes, no agent_runs row is written and no worker is started.
C9_DisabledIsNotARun ==
    /\ [][\A i \in Started :
            DisabledCall(calls'[i])
            => /\ calls'[i].pc = "done"
               /\ calls'[i].exec = None
               /\ agent_runs' = agent_runs
               /\ agents' = agents
               /\ calls'[i].kind = "job"
                    => calls'[i].result = AgentResult(calls'[i].name,
                          "disabled", "error", "Agent is disabled")
               /\ RunNow(calls'[i])
                    => (calls'[i].http = 400 /\ calls'[i].result = None)]_vars
    /\ [](\A i \in DOMAIN calls :
            /\ DisabledCall(calls[i]) => RowsOf(i) = {}
            /\ (calls[i].exec # None \/ calls[i].gw_result # None)
                 => (/\ calls[i].result.framework # "disabled"
                     /\ calls[i].result.error # "Agent is disabled"))

\* run_agent refused a disabled agent, whose state is as constructed.
C9_Witness ==
    \E i \in DOMAIN calls :
        /\ calls[i].kind = "job"
        /\ DisabledCall(calls[i])
        /\ calls[i].result # None
        /\ calls[i].result.framework = "disabled"
        /\ agents[calls[i].real] = BaseAgent_init(FALSE)
        /\ agent_runs = <<>>

\* C10: an exception raised by execute does not leave run: run returns an
\* error Result whose error field is the exception's message, the agent's
\* status becomes 'error' and the caller goes on.
C10_ExceptionBecomesErrorResult ==
    [][\A i \in DOMAIN calls :
         (calls[i].pc = "executing" /\ calls'[i].pc # "executing"
             /\ calls'[i].exec.kind = "raise")
         => LET r == AgentResult(calls[i].real, "native", "error",
                                 calls'[i].exec.msg)
            IN /\ calls'[i].pc = AfterDispatch(calls[i].kind)
               /\ calls'[i].result = r
               /\ agents'[calls[i].real].status = "error"
               /\ agents'[calls[i].real].last_result = r]_vars

\* execute raised inside run_agent and run_agent went on to persist.
C10_Witness ==
    \E i \in DOMAIN calls :
        /\ calls[i].kind = "job"
        /\ calls[i].exec # None
        /\ calls[i].exec.kind = "raise"
        /\ calls[i].pc \in {"persist", "done"}
        /\ calls[i].result.error \in ExcMsgs

\* C11: a call of get_status_dict made while no run of the agent is under
\* way never returns status 'running' and never returns a status that
\* disagrees with the status of the last_run it returns; before any run it
\* returns 'idle' and no last_run.
C11_StatusTransitionAtomic ==
    \A k \in DOMAIN reads :
        (reads[k].pc = "done" /\ reads[k].quiet)
        => /\ reads[k].status # "running"
           /\ IF reads[k].last_run = None
              THEN reads[k].status = "idle"
              ELSE reads[k].status = reads[k].last_run.status

\* An invocation is between its first statement and its return.
InFlight(c) == c.pc \notin {"done", "crashed"}

\* The invocations of agent a that returned and left a row in agent_runs.
PersistedRuns(a) ==
    {i \in DOMAIN calls : /\ calls[i].real = a
                          /\ calls[i].pc = "done"
                          /\ RowsOf(i) # {}}

\* C12: every persisted run of an enabled agent adds exactly one to the
\* agent's run_count: whenever no invocation of the agent is under way,
\* run_count is the number of its invocations that completed and were
\* persisted, whether they ended in success, in an error Result or in a
\* caught exception, and whichever backend serviced them.
C12_RunCountCountsPersistedRuns ==
    \A a \in DOMAIN agents :
        (\A i \in DOMAIN calls : calls[i].real = a => ~InFlight(calls[i]))
        => agents[a].run_count = Cardinality(PersistedRuns(a))

\* C13: a run a scheduled job requests through run_agent goes through the
\* dispatch chain like a run-now trigger: with the gateway flag set the
\* gateway is consulted first, so the agent's own execute runs only when
\* the flag is unset or is_available() answered false, and a Result the
\* job gets is the gateway's whenever the gateway was available.
C13_JobRunGoesThroughDispatch ==
    \A i \in DOMAIN calls :
        (calls[i].kind = "job" /\ calls[i].exec # None)
        => (~OPENCLAW_ENABLED \/ (calls[i].bridge # None
                                    /\ ~calls[i].available))

\* The wall-clock time of the market of the call, in the market's zone.
MarketClock ==
    datetime_now(mh.utc_now, mh.micro,
                 IF mh.market \in {"India", "india"} THEN "Asia/Kolkata"
                 ELSE "America/New_York", mh.dst)

\* C19: is_market_hours answers false at every instant of a Saturday or
\* Sunday of the market's zone; on a weekday it answers true during the
\* minute of the open, false during the minute before the open and false
\* during the minute after the close; the US market opens 09:30 and closes
\* 16:00 New York time, the India market 09:15 and 15:30 Kolkata time.
C19_MarketHoursGate ==
    mh.pc = "done" =>
        LET t == MarketClock
            india == mh.market \in {"India", "india"}
            open == IF india THEN <<9, 15>> ELSE <<9, 30>>
            before == IF india THEN <<9, 14>> ELSE <<9, 29>>
            after == IF india THEN <<15, 31>> ELSE <<16, 1>>
            hm == <<t.hour, t.minute>>
        IN /\ t.weekday \in {5, 6} => mh.ret = FALSE
           /\ (t.weekday < 5 /\ hm = open) => mh.ret = TRUE
           /\ (t.weekday < 5 /\ hm = before) => mh.ret = FALSE
           /\ (t.weekday < 5 /\ hm = after) => mh.ret = FALSE

\* A Saturday 12:00 in New York was asked about and the answer was false,
\* at an instant at which the India zone is in its Saturday too.
C19_Witness ==
    /\ mh.pc = "done"
    /\ mh.market = "US"
    /\ MarketClock.weekday = 5
    /\ MarketClock.hour = 12
    /\ mh.ret = FALSE

\* The entries of the summary's by_agent list.
ByAgent == {cs.ret.by_agent[k] : k \in DOMAIN cs.ret.by_agent}

\* The rows the summary's window holds, all of them or an agent's.
InWindow(a) ==
    {r \in DOMAIN agent_runs :
        /\ agent_runs[r].created_at > Today - cs.days
        /\ a \in {agent_runs[r].agent_name, "*"}}

\* What the summary says of each agent: every agent with a row in the
\* window is reported (when the queries ran), once, with the number of its
\* rows in the window as runs and the sum of their estimated_cost as cost.
PerAgentFigures ==
    /\ cs.db_ok => {e.agent_name : e \in ByAgent}
                      = {agent_runs[r].agent_name : r \in InWindow("*")}
    /\ Cardinality(ByAgent) = Len(cs.ret.by_agent)
    /\ \A e \in ByAgent :
          /\ e.runs = Cardinality(InWindow(e.agent_name))
          /\ e.cost = SumCost(agent_runs, InWindow(e.agent_name))
    /\ \A e, f \in ByAgent : e.agent_name = f.agent_name => e = f

\* C20 as stated: the per-agent figures are the counts and the cost sums of
\* the agent's rows in the window, and the overall total_cost is the sum of
\* the per-agent costs.
C20_TotalIsSumOfAgentCosts ==
    cs.pc = "done" =>
        /\ PerAgentFigures
        /\ cs.ret.total_cost
             = SumCost([k \in DOMAIN cs.ret.by_agent |->
                          [estimated_cost |-> cs.ret.by_agent[k].cost]],
                       DOMAIN cs.ret.by_agent)

\* C20 amended: the per-agent figures are as stated, total_runs is the sum
\* of the per-agent runs, and total_cost is the sum of the per-agent costs
\* rounded to 4 decimals; three runs of "scanner" costing 0.01, 0.02 and
\* 0.00 give cost 0.03 and runs 3.  When the queries fail the summary is
\* empty with zero totals.
C20_TotalIsRoundedSum ==
    cs.pc = "done" =>
        /\ PerAgentFigures
        /\ cs.ret.total_cost
             = round4(SumCost([k \in DOMAIN cs.ret.by_agent |->
                          [estimated_cost |-> cs.ret.by_agent[k].cost]],
                       DOMAIN cs.ret.by_agent))
        /\ cs.ret.total_runs
             = SumCost([k \in DOMAIN cs.ret.by_agent |->
                          [estimated_cost |-> cs.ret.by_agent[k].runs]],
                       DOMAIN cs.ret.by_agent)
        /\ ~cs.db_ok => (cs.ret.by_agent = <<>> /\ cs.ret.total_cost = 0
                            /\ cs.ret.total_runs = 0)

\* The table holds three runs of "scanner" costing 0.01, 0.02 and 0.00, all
\* in the window: the summary gives cost 0.03 and runs 3.
C20_Witness ==
    /\ cs.pc = "done"
    /\ cs.db_ok
    /\ Len(agent_runs) = 3
    /\ {agent_runs[r].estimated_cost : r \in InWindow("scanner")}
          = {0, 10000, 20000}
    /\ cs.ret.by_agent = <<[agent_name |-> "scanner", runs |-> 3,
                            cost |-> 30000]>>
    /\ cs.ret.total_cost = 30000


\* C14: at any time at most one execution of a registered job (of its job
\* function) is in progress, whatever the interleaving of recurring
\* firings and trigger_job calls.
C14_OneInstancePerJob ==
    \A e1, e2 \in scheduler_manager.scheduler.instances :
        e1.func = e2.func => e1 = e2

\* The recurring job of descriptor j has a pending next fire time.
Active(j) ==
    LET s == scheduler_manager.scheduler
    IN /\ JobId(j, NoTime) \in DOMAIN s.jobs
       /\ s.jobs[JobId(j, NoTime)].next_run_time >= 0

\* C15: once the scheduler is started, after any sequence of
\* start_all_jobs, pause_job, resume_job, trigger_job and
\* update_job_schedule calls a registered job is active in the underlying
\* scheduler if and only if its descriptor's enabled flag is true.  Only
\* descriptors whose trigger the scheduler accepts are looked at.
C15_EnabledIffActive ==
    scheduler_manager.scheduler.running =>
        \A j \in DOMAIN scheduler_manager._job_registry :
            LET meta == scheduler_manager._job_registry[j]
            IN _create_trigger(meta.trigger, meta.trigger_args, clock)
                      # TypeError
                  => (Active(j) <=> meta.enabled)

\* C16: when resume_job ends a pause of job j (enabled goes from False to
\* True) and both the scheduler and the one that saw no pause are running
\* with their due jobs served, the job's trigger and its next fire time
\* are those it has where it was never paused, the re-added job included.
C16_PauseResumeKeepsSchedule ==
    [][\A j \in DOMAIN scheduler_manager._job_registry :
          LET id == JobId(j, NoTime)
              s == scheduler_manager'.scheduler
              ideal == never_paused'.scheduler
          IN (/\ ~scheduler_manager._job_registry[j].enabled
              /\ scheduler_manager'._job_registry[j].enabled
              /\ s.running /\ ideal.running
              /\ id \in DOMAIN s.jobs /\ id \in DOMAIN ideal.jobs
              /\ due_jobs(ideal, clock') = {})
             => /\ s.jobs[id].trigger = ideal.jobs[id].trigger
                /\ s.jobs[id].next_run_time = ideal.jobs[id].next_run_time
      ]_vars

\* C17: after update_job_schedule on a registered job j the underlying
\* task's trigger is the descriptor's stored trigger (type and
\* arguments), and every firing of j from then on is one of that trigger,
\* never one computed from the trigger it replaced.
C17_UpdateReplacesTrigger ==
    [][\A j \in DOMAIN scheduler_manager._job_registry :
          LET id == JobId(j, NoTime)
              meta == scheduler_manager'._job_registry[j]
              s == scheduler_manager'.scheduler
          IN /\ (/\ last_call'.op = "update_job_schedule"
                  /\ last_call'.job_id = j
                  /\ id \in DOMAIN s.jobs)
                 => /\ s.jobs[id].trigger.type = meta.trigger
                    /\ s.jobs[id].trigger.args = meta.trigger_args
             /\ \A e \in s.instances \ scheduler_manager.scheduler.instances :
                   e.id = id => /\ e.trigger = meta.trigger
                                /\ e.trigger_args = meta.trigger_args
      ]_vars

\* The entries of the scheduler's jobs that are one-shot jobs of j.
OneShots(s, j) == {id \in DOMAIN s.jobs : id.job = j /\ id.manual # NoTime}

\* C18: a trigger_job call on a registered job j schedules one one-shot
\* execution of j's function, due at once, and leaves the descriptors
\* and every entry the scheduler already had, the recurring one with its
\* next fire time and paused state included, as they were.
C18_TriggerJobSchedulesOneShot ==
    [][\A j \in DOMAIN scheduler_manager._job_registry :
          LET s == scheduler_manager.scheduler
              s_after == scheduler_manager'.scheduler
          IN (/\ last_call'.op = "trigger_job"
              /\ last_call'.job_id = j
              /\ last_call'.manuals = last_call.manuals + 1)
             => /\ \E id \in OneShots(s_after, j) \ OneShots(s, j) :
                      /\ DOMAIN s_after.jobs = DOMAIN s.jobs \cup {id}
                      /\ s_after.jobs[id].func = j
                      /\ s_after.jobs[id].trigger.type = "date"
                      /\ s_after.jobs[id].trigger.args = <<"run_date", clock>>
                /\ \A id \in DOMAIN s.jobs :
                      id \in DOMAIN s_after.jobs
                         /\ s_after.jobs[id] = s.jobs[id]
                /\ scheduler_manager'._job_registry
                      = scheduler_manager._job_registry
      ]_vars

\* C26: no execution of a registered job's function starts while the
\* job's descriptor has enabled = False, whatever calls of pause_job,
\* update_job_schedule, trigger_job and start_all_jobs came before.
C26_PausedJobDoesNotRun ==
    [][\A e \in scheduler_manager'.scheduler.instances
                  \ scheduler_manager.scheduler.instances :
          scheduler_manager._job_registry[e.func].enabled
      ]_vars

\* C27: a call of update_job_schedule, pause_job or resume_job that
\* returns False leaves the descriptors (trigger, trigger_args, enabled)
\* as they were before the call, and the underlying recurring tasks with
\* the triggers they had.
C27_FailedCallChangesNothing ==
    [][(/\ last_call'.op \in {"update_job_schedule", "pause_job",
                              "resume_job"}
        /\ last_call'.ret = FALSE)
       => LET recurring(s) == [id \in {x \in DOMAIN s.jobs :
                                          x.manual = NoTime} |->
                                  s.jobs[id].trigger]
          IN /\ scheduler_manager'._job_registry
                   = scheduler_manager._job_registry
             /\ recurring(scheduler_manager'.scheduler)
                   = recurring(scheduler_manager.scheduler)
      ]_vars

\* C30: two trigger_job calls for the same registered job both return
\* True and leave two separate one-shot jobs, also within one clock
\* second: the later call is not rejected and replaces nothing.
C30_EveryTriggerGetsItsOneShot ==
    [][\A j \in DOMAIN scheduler_manager._job_registry :
          (/\ last_call'.op = "trigger_job"
           /\ last_call'.job_id = j
           /\ last_call'.manuals = last_call.manuals + 1)
          => /\ last_call'.ret = TRUE
             /\ Cardinality(OneShots(scheduler_manager'.scheduler, j))
                   = Cardinality(OneShots(scheduler_manager.scheduler, j))
                        + 1
      ]_vars

\* C25: the run_id a run-now trigger answers with (when it has one)
\* names a row of agent_runs made by that very invocation and written by
\* no other, and no two invocations are answered with the same run_id.
C25_RunIdIdentifiesOwnRow ==
    \A i \in DOMAIN calls :
        (calls[i].pc = "done" /\ calls[i].http = 200
            /\ calls[i].run_id # 0)
        => /\ calls[i].run_id \in DOMAIN agent_runs
           /\ agent_runs[calls[i].run_id].inv = i
           /\ agent_runs[calls[i].run_id].upd \in {0, i}
           /\ \A k \in DOMAIN calls \ {i} :
                 (calls[k].pc = "done" /\ calls[k].http = 200)
                 => calls[k].run_id # calls[i].run_id

\* C24: operations on the agent map of one registry exclude each other:
\* while a list_agents is between its first and its last look at the map
\* no register on the same registry is inside its locked block, and no
\* list_agents ends with the map having changed under its iteration.
C24_RegistryOperationsExclusive ==
    \A t \in DOMAIN callers :
        callers[t].op = "list_agents"
        => /\ callers[t].ret # RuntimeError
           /\ \A u \in DOMAIN callers :
                 ~ /\ callers[t].pc = "l198"
                   /\ callers[t].pos > 0
                   /\ callers[u].op = "register"
                   /\ callers[u].self = callers[t].self
                   /\ callers[u].pc \in {"l189", "exit"}

\* C28: under any interleaving of get_registry calls at most one
\* AgentRegistry is ever built, the published one and the one every call
\* returns hold all default agents, and every call returns the published
\* one.
C28_LazySingleton ==
    LET whole(r) == /\ r \in DOMAIN heap
                    /\ SubSeq(heap[r]._agents, 1, Len(DefaultAgents))
                          = DefaultAgents
    IN /\ Len(heap) <= 1
       /\ _registry # 0 => whole(_registry)
       /\ \A t \in DOMAIN callers :
             (callers[t].op = "get_registry" /\ callers[t].pc = "done")
             => /\ callers[t].ret = _registry
                /\ whole(callers[t].ret)

\* Two first calls raced: one built the registry, the other waited for the
\* lock and found it built; both have returned.
C28_Witness ==
    \E t, u \in DOMAIN callers :
        /\ t # u
        /\ callers[t].op = "get_registry" /\ callers[t].pc = "done"
        /\ callers[u].op = "get_registry" /\ callers[u].pc = "done"
        /\ callers[t].self = callers[t].ret
        /\ callers[u].waited
        /\ callers[u].ret = callers[t].ret

C22_ExceptionDisconnects ==
    [][/\ (/\ Len(bridge'.log) > Len(bridge.log)
            /\ bridge'.log[Len(bridge'.log)] = "send"
            /\ bridge'.pending_tasks = bridge.pending_tasks)
           => ~bridge'.connected
       /\ poll' # poll
           => /\ bridge'.log \in {bridge.log, Append(bridge.log, "poll_result")}
              /\ (poll'.last # None /\ poll'.last.k = "recv_exc")
                 => ~bridge'.connected
      ]_vars

\* C23: a success Result or a server-error Result is built only from a
\* message whose id is the task id polled for; a poll whose last message
\* had another id went on, and when it ended there it ended by the timeout.
C23_OnlyMatchingMessageBuildsResult ==
    LET other == /\ poll.last # None
                 /\ poll.last.k = "message"
                 /\ poll.last.id # poll.task_id
    IN /\ (/\ poll.pc = "done"
           /\ poll.ret # None
           /\ poll.ret.status = "success" \/ poll.ret.error = "server_error")
          => /\ poll.last # None
             /\ poll.last.k = "message"
             /\ poll.last.id = poll.task_id
       /\ (poll.pc = "done" /\ other)
          => /\ poll.ret = TimeoutResult(poll.agent_name, poll.timeout)
             /\ poll.elapsed >= poll.timeout

\* A message for another task was discarded and the poll went on to return
\* the success Result of the message with the task id.
C23_Witness ==
    /\ poll.pc = "done"
    /\ poll.discarded
    /\ poll.ret # None
    /\ poll.ret.status = "success"
    /\ poll.last.id = poll.task_id

====
